---- MODULE Spec2Model ----
(***************************************************************************)
(* Session relay and reconnection engine of OptiSearch's Copilot backend.  *)
(*                                                                         *)
(*   Spec             the Transport Registry (websocket_utils.js) driven   *)
(*                    by one BingChatSession (bingchat_session.js)         *)
(*   SpecDisconnects  the same, against a server that keeps asking to      *)
(*                    disconnect                                           *)
(*   SpecBus          the offscreen message bus (offscreen.js,             *)
(*                    bing_socket.js)                                      *)
(*   SpecAuth         the background authentication handler                *)
(*                    (auth_handler.js)                                    *)
(*   SpecRate         checkRateLimit against the clock                     *)
(*   SpecBackoff      one turn over a network on which socket              *)
(*                    constructions keep failing                           *)
(*   SpecFraming      one turn against a server that sends blank and       *)
(*                    malformed fragments                                  *)
(*   SpecParked       turns of a conversation that receives auth-complete  *)
(*                    messages                                             *)
(*   SpecClose        removeConversation, with fairness of the return of   *)
(*                    the close call                                       *)
(*   SpecErrors       one turn against a server that sends error frames    *)
(*                    naming no token                                      *)
(*   SpecTokenError   one turn against a server that sends token errors    *)
(*   SpecOpen         one open call of the registry, invocation by         *)
(*                    invocation, with rate-limit waits and failing        *)
(*                    constructions                                        *)
(*   SpecEndpoint     message events on the iframe window (iframe script   *)
(*                    of offscreen.js, bing_socket.js)                     *)
(*   SpecRestore      turns of a conversation whose page restores the      *)
(*                    persisted session snapshot                           *)
(*   SpecReload       the iframe script with its reload timer, the         *)
(*                    offscreen window's listener and a socket inside the  *)
(*                    iframe                                               *)
(*   SpecGpt          the turns of a ChatGPTSession (ChatGPTSession.js)    *)
(*                                                                         *)
(* A call of the conversation into the registry crosses the message bus.   *)
(* The conversation does nothing between posting the call and receiving    *)
(* the answer, so the call and the run of handleActionWebsocket up to its  *)
(* first suspension are one step and the delivery of the answer is a       *)
(* second step.  checkRateLimit only delays a call and is not part of      *)
(* these steps; SpecRate models it on its own.                             *)
(***************************************************************************)
EXTENDS Integers, Sequences, FiniteSets, TLC

(* ---------------------------- bounds ----------------------------------- *)
\* socket objects ever constructed in one run
MaxSockets == 5
\* WebSocket messages the server sends in one run
MaxMsgs == 2
\* sockets, in construction order, on which the server sends messages
MaxTalking == 2
\* turns started by the caller in one run
MaxTurns == 1
\* socket constructions that fail in one run
MaxFails == 1
\* WebSocket messages sent in one run by a server that keeps disconnecting
MaxDisconnects == 4
\* sendMessageToIframe calls in one run
MaxCalls == 3
\* messages other senders post to the offscreen window in one run
MaxStray == 2
\* copilot-auth requests in one run
MaxAuthCalls == 3
\* clock advances of the authentication handler in a run
MaxAuthTicks == 2
\* admission checks made one by one in a run
MaxChecks == 4
\* clock advances of the admission control in a run
MaxRateTicks == 2
\* socket constructions that fail in a run with a failing network
MaxCreateFails == 3
\* auth-complete messages in one run
MaxSignals == 1
\* rate-limit waits of one open call
MaxRateWaits == 3
\* message events delivered to the iframe
MaxEpMsgs == 5
\* restoreSession calls in one run
MaxRestores == 2
\* clock advances of the page in one run
MaxPageTicks == 2
\* reloads of the iframe in one run
MaxReloads == 2
\* timer periods counted on a socket without frames
MaxSockIdle == 3
\* frames on one socket inside the iframe
MaxEpFrames == 2
\* packets of the event stream in one run
MaxGptChunks == 3
\* prompts sent to ChatGPT in one run
MaxGptTurns == 2

(* ------------------------ program constants ---------------------------- *)
\* this.maxRetries
maxRetries == 3
\* restoreSession: the age below which a snapshot is reused, in ms
snapshotTtl == 3600000
\* age below which handleAuth uses the cached token, in ms
tokenTtl == 3600000
\* handleActionWebsocket(action, tryTimes = 3)
tryTimes == 3
\* rateLimits.windowMs
windowMs == 60000
\* rateLimits.maxRequests
maxRequests == 25

Objs == 1..MaxSockets
\* websockets[i] = null, and "no socket object"
NoObj == 0
\* this.socketID = null
NoSocket == -1
\* this.session = null
NoSession == [accessToken |-> "none", conversationId |-> "none"]
\* no answer has arrived yet
NoResp == [kind |-> "none"]

CONNECTING == "CONNECTING"
OPEN == "OPEN"
CLOSING == "CLOSING"
CLOSED == "CLOSED"
\* a socket object that has not been constructed yet
NONE == "NONE"

\* frames of the wire protocol: appendText("a"), appendText("b"), done,
\* suggestedFollowups, pong, disconnect, an error mentioning a token, any
\* other error
TextFrames == {"a", "b"}
Frames == TextFrames \cup {"done", "followups", "pong", "disconnect", "errTok",
                           "errOther"}

\* the WebSocket messages the server sends: frames joined by 0x1E
Packets ==
  { <<"a">>, <<"done">>, <<"a", "b">>, <<"a", "disconnect">>,
    <<"a", "pong", "disconnect">>, <<"disconnect">>, <<"a", "errTok">>,
    <<"errOther">> }

\* the WebSocket messages of a server that keeps asking to disconnect
DisconnectPackets ==
  { <<"followups", "disconnect">>, <<"followups", "pong", "disconnect">>,
    <<"a">> }

\* packets of a server that ends every frame with the separator, sends
\* blank fragments and sends fragments that are not JSON ("bad")
FramingPackets ==
  { <<"a", "b", "">>, <<"", "a", " ", "b">>, <<"a", "bad", "b", "">>,
    <<"bad", "">>, <<" ", "">>, <<"a", "bad", "done", "">>, <<"done", "">> }

\* packets of a server that reports an error other than a token error,
\* alone or between other frames
ErrorPackets ==
  { <<"a">>, <<"a", "errOther", "b">>, <<"errOther", "done">>,
    <<"followups", "errOther", "disconnect">> }

\* packets of a server that reports a token error, alone or after a text
TokenErrorPackets ==
  { <<"errTok">>, <<"a">>, <<"a", "errTok">>, <<"done">> }

Tokens == {"t1"}

\* turnFrames once the frames of the turn are no longer appendText frames
\* followed by at most one done frame
Other == <<"other">>

\* appendText frames, followed by at most one done frame
TurnPrefix(fs) ==
  \A i \in 1..Len(fs) :
    fs[i] \in TextFrames \/ (i = Len(fs) /\ fs[i] = "done")

\* the frames of the turn after the frames pkt have arrived
TurnFramesAfter(tf, pkt) ==
  IF tf # Other /\ TurnPrefix(tf) /\ (tf = <<>> \/ tf[Len(tf)] # "done") /\
     TurnPrefix(tf \o pkt)
  THEN tf \o pkt ELSE Other

VARIABLES
  \* ---- Transport Registry (websocket_utils.js) ----
  websockets,         \* the websockets array: socket objects and nulls
  readyState,         \* ws.readyState of every socket object
  buffer,             \* ws.stream.buffer
  readPromise,        \* ws.stream.readPromise !== null
  pingInterval,       \* the keepalive interval is running
  connectionTimeout,  \* the connection timeout is armed
  idle,               \* keepalive ticks since lastResponseTime
  nMsgs,              \* messages received so far (arrival stamp)
  \* ---- BingChatSession (bingchat_session.js) ----
  session,            \* this.session: Null or [accessToken, conversationId]
  socketID,           \* this.socketID
  retryCount,         \* this.retryCount
  sendingAllowed,     \* ChatSession.sendingAllowed
  pc,                 \* where the conversation's async chain is suspended
  ctx,                \* which caller createSocket / init returns to
  resp,               \* the answer travelling back to the conversation
  lastError,          \* this.lastError
  emitted,            \* texts given to onMessage in this turn
  \* ---- observation ----
  heldObj,            \* the socket object this.socketID was returned for
  openedWith,         \* the access token each socket was opened with
  turnFrames,         \* frames that arrived for the turn, in arrival order,
                      \* or Other
  reconnects,         \* consecutive disconnect-triggered reconnections
  lastSeq,            \* arrival stamp of the last packet each Stream handed out
  prevSeq,            \* arrival stamp of the packet handed out before that
  turnState,          \* Idle, Running, Done, Fatal or Parked
  nTurns,             \* turns started so far
  nFails,             \* socket constructions that failed so far
  failLimit,          \* how many socket constructions the run lets fail
  regDelays,          \* delays the registry waited in the last create call
  delay,              \* the delay createSocket is waiting before its retry
  parseErrors,        \* fragments next() failed to parse and logged
  nSignals,           \* auth-complete messages received so far
  \* ---- offscreen message bus (offscreen.js, bing_socket.js) ----
  val,                \* socketScriptReady._val
  listener,           \* the call whose resolve is socketScriptReady._listener
  callPc,             \* where each sendMessageToIframe call is suspended
  messageId,          \* the messageId each call generated
  handlers,           \* calls whose messageHandler listens on the window
  toIframe,           \* messages posted to the iframe, not yet answered
  toParent,           \* messages posted to the offscreen window, in order
  scriptLoaded,       \* bing_socket.js has run in the iframe
  resolveCount,       \* resolve() calls made by each call's messageHandler
  resolvedBy,         \* messageId of the message that resolved each call
  laterSame,          \* a message with the call's id came after it resolved
  nStray,             \* messages posted to the window by other senders
  \* ---- authentication handler (auth_handler.js) ----
  authTabs,           \* the authTabs set
  authTokenCache,     \* authTokenCache.get('copilot'): NoEntry or Entry(t)
  authCookie,         \* the _C_Auth cookie exists
  authPc,             \* where each handleAuth call is suspended
  answer,             \* what each handleAuth call gave to sendResponse
  openTabs,           \* authentication tabs open in the browser
  createdTab,         \* the tab chrome.tabs.create opened for each call
  nTabs,              \* tabs created so far
  authClock,          \* Date.now() in the service worker, in ms
  nAuthTicks,         \* clock advances so far
  madeWithTab,        \* a registered tab was open when the call was made
  checkedAge,         \* the age each call computed for the cached entry
  \* ---- admission control (websocket_utils.js) ----
  rateNow,            \* Date.now() seen by checkRateLimit, in ms
  requests,           \* keys of the rateLimits.requests Map
  admitted,           \* timestamps of the checks that returned true
  nChecks,            \* admission checks made one by one
  nRateTicks,         \* clock advances so far
  \* ---- observations of the registry's sockets ----
  unanswered,         \* pings sent since the socket last received a message
  errorEvent,         \* an 'error' event was dispatched on the socket
  \* ---- persisted session snapshot (bingchat_session.js) ----
  snapshot,           \* chrome.storage.local 'copilot_session'
  pageClock,          \* Date.now() in the page of the conversation
  nRestores,          \* restoreSession calls made
  nPageTicks,         \* advances of pageClock made
  \* ---- one open call of the registry, invocation by invocation ----
  openTries,          \* tryTimes of the invocation under way
  openWaits,          \* the waits of the call so far, in ms
  openOut,            \* the answer of the call
  constructions,      \* new WebSocket(...) attempts of the call
  nRateWaits,         \* rate-limit waits of the call
  \* ---- the iframe of the Transport Endpoint ----
  epScript,           \* the socket script: "none", "inserted" or "running"
  epEffects,          \* what message events have caused, with their origin
  nEpMsgs,            \* message events delivered to the iframe
  \* ---- the iframe script and its reload timer (offscreen.js) ----
  ifIdle,             \* timer periods since the iframe's lastResponseTime
  ifLoads,            \* reloads of the iframe so far
  hostInbox,          \* strings posted to the offscreen window, in flight
  scriptsPosted,      \* { scripts } messages posted to the iframe, in flight
  readySeen,          \* 'socket-script-ready' messages the offscreen
                      \* window has handled
  epSockOpen,         \* a socket of the registry inside the iframe is open
  epSockIdle,         \* timer periods since the last frame on that socket
  epFrames,           \* frames sent or received on that socket
  \* ---- ChatGPTSession (ChatGPTSession.js) ----
  gBuffer,            \* this.buffer, as the pieces of text it holds
  gSession,           \* this.session: conversation_id, parent_message_id
  gSending,           \* sendingAllowed of the ChatGPT conversation
  gPc,                \* "idle", "recv" (in next()) or "error"
  gChunk,             \* the packet next() received last
  gOutcome,           \* what next() did with it: "parsed", "failed", "done"
  gLastParsed,        \* the record JSON.parse returned last, 0 if none
  gConfig,            \* the request config(prompt) built last
  nGptChunks,         \* packets received so far
  nGptTurns           \* prompts sent so far

regVars == <<websockets, readyState, buffer, readPromise, pingInterval,
             connectionTimeout, idle, nMsgs>>
convVars == <<session, socketID, retryCount, sendingAllowed, pc, ctx, resp,
              lastError, emitted>>
seqVars == <<lastSeq, prevSeq>>
obsVars == <<heldObj, openedWith, turnFrames, reconnects, seqVars, turnState,
             nTurns, nFails>>
busVars == <<val, listener, callPc, messageId, handlers, toIframe, toParent,
             scriptLoaded, resolveCount, resolvedBy, laterSame, nStray>>
authVars == <<authTabs, authTokenCache, authCookie, authPc, answer, openTabs,
              createdTab, nTabs, authClock, nAuthTicks, madeWithTab,
              checkedAge>>
rateVars == <<rateNow, requests, admitted, nChecks, nRateTicks>>
auxVars == <<failLimit, regDelays, delay, parseErrors, nSignals>>
wireVars == <<unanswered, errorEvent>>
snapVars == <<snapshot, pageClock, nRestores, nPageTicks>>
openVars == <<openTries, openWaits, openOut, constructions, nRateWaits>>
hostVars == <<ifIdle, ifLoads, hostInbox, scriptsPosted, readySeen,
              epSockOpen, epSockIdle, epFrames>>
epVars == <<epScript, epEffects, nEpMsgs, hostVars>>
gptVars == <<gBuffer, gSession, gSending, gPc, gChunk, gOutcome, gLastParsed,
             gConfig, nGptChunks, nGptTurns>>
extVars == <<wireVars, snapVars, openVars, epVars, gptVars>>
vars == <<regVars, convVars, obsVars, auxVars, busVars, authVars, rateVars,
          extVars>>

(* ======================= Transport Registry ============================ *)

\* websockets[socketID], with JavaScript's 0-based index; null and undefined
\* both make "!ws" true
Lookup(id) ==
  IF id >= 0 /\ id < Len(websockets) THEN websockets[id + 1] ELSE NoObj

\* websockets.indexOf(ws), -1 when absent
IndexOf(o) ==
  IF \E i \in 1..Len(websockets) : websockets[i] = o
  THEN (CHOOSE i \in 1..Len(websockets) : websockets[i] = o) - 1
  ELSE -1

\* websockets.splice(index, 1)
Splice(ws, index) ==
  [i \in 1..(Len(ws) - 1) |-> IF i <= index THEN ws[i] ELSE ws[i + 1]]

\* the object "new WebSocket" constructs next
NextObj == CHOOSE o \in Objs : readyState[o] = NONE /\
                               \A p \in Objs : p < o => readyState[p] # NONE

CanConstruct == \E o \in Objs : readyState[o] = NONE

\* the socket object constructed last
LatestObj == IF \E o \in Objs : readyState[o] # NONE
             THEN CHOOSE o \in Objs : readyState[o] # NONE /\
                                      \A p \in Objs : p > o => readyState[p] = NONE
             ELSE NoObj

\* data.split('\x1e').filter(Boolean): only the empty string is dropped
NonEmpty(pkt) == SelectSeq(pkt, LAMBDA message : message # "")

\* frames the message listener intercepts with "return"
IsIntercepted(f) == f \in {"pong", "errTok", "disconnect"}

\* number of frames of a message the listener's loop reaches before it returns
RECURSIVE Leading(_)
Leading(fs) ==
  IF fs = <<>> \/ IsIntercepted(Head(fs)) THEN 0 ELSE 1 + Leading(Tail(fs))

\* a Stream.write that would put the data at the front of the buffer
\* (buffer.unshift instead of buffer.push)
StreamWriteUnshift(st, data) ==
  LET pushed == <<data>> \o st.buffer IN
  IF st.readPromise
  THEN [buffer |-> Tail(pushed), readPromise |-> FALSE,
        out |-> Append(st.out, Head(pushed))]
  ELSE [st EXCEPT !.buffer = pushed]

\* Stream.write on st = [buffer, readPromise, out]; out collects the values
\* given to resolveReadPromise
StreamWrite(st, data) ==
  LET pushed == Append(st.buffer, data) IN
  IF st.readPromise
  THEN [buffer |-> Tail(pushed), readPromise |-> FALSE,
        out |-> Append(st.out, Head(pushed))]
  ELSE [st EXCEPT !.buffer = pushed]

\* the k calls "ws.stream.write(data)" of one message event
RECURSIVE WriteTimes(_, _, _)
WriteTimes(st, data, k) ==
  IF k = 0 THEN st ELSE WriteTimes(StreamWrite(st, data), data, k - 1)

\* Stream.read when the buffer is not empty: buffer.shift()
StreamShift(buf) == [value |-> Head(buf), rest |-> Tail(buf)]

\* ws.close(): OPEN and CONNECTING sockets start the closing handshake
AfterCloseCall(state) == IF state \in {CONNECTING, OPEN} THEN CLOSING ELSE state

\* the answer of the receive branch: { readyState, packet }
PacketResp(data, state) ==
  [kind |-> "packet", packet |-> data, readyState |-> state]

ErrorResp(e) == [kind |-> "error", error |-> e]

\* 'open' listener: clearTimeout, send toSend, startKeepalive.  The first
\* keepalive tick comes 15 s after the open event and lastResponseTime was
\* set at construction, so one period already counts as elapsed.
OnOpen(o) ==
  /\ UNCHANGED <<auxVars, busVars, authVars, rateVars, extVars>>
  /\ readyState[o] = CONNECTING
  /\ readyState' = [readyState EXCEPT ![o] = OPEN]
  /\ connectionTimeout' = [connectionTimeout EXCEPT ![o] = FALSE]
  /\ pingInterval' = [pingInterval EXCEPT ![o] = TRUE]
  /\ idle' = [idle EXCEPT ![o] = 1]
  /\ UNCHANGED <<websockets, buffer, readPromise, nMsgs>>
  /\ UNCHANGED <<convVars, obsVars>>

\* 'message' listener for one WebSocket message carrying the frames pkt
OnMessage(o, pkt) ==
  /\ UNCHANGED <<auxVars, busVars, authVars, rateVars, snapVars, openVars,
                 epVars, gptVars>>
  /\ readyState[o] = OPEN
  /\ LET data == [frames |-> pkt, seq |-> nMsgs + 1]
         messages == NonEmpty(pkt)
         k == Leading(messages)
         ctl == IF k < Len(messages) THEN messages[k + 1] ELSE "none"
         st == WriteTimes([buffer |-> buffer[o], readPromise |-> readPromise[o],
                           out |-> <<>>], data, k)
         state == IF ctl = "disconnect" THEN AfterCloseCall(readyState[o])
                  ELSE readyState[o]
     IN /\ nMsgs' = nMsgs + 1
        /\ idle' = [idle EXCEPT ![o] = 0]
        /\ unanswered' = [unanswered EXCEPT ![o] = 0]
        /\ buffer' = [buffer EXCEPT ![o] = st.buffer]
        /\ readPromise' = [readPromise EXCEPT ![o] = st.readPromise]
        /\ readyState' = [readyState EXCEPT ![o] = state]
        \* a token error is re-dispatched as an 'error' event, whose
        \* listener clears the timeout and stops the keepalive
        /\ pingInterval' = [pingInterval EXCEPT ![o] =
                              IF ctl = "errTok" THEN FALSE ELSE @]
        /\ connectionTimeout' = [connectionTimeout EXCEPT ![o] =
                              IF ctl = "errTok" THEN FALSE ELSE @]
        /\ errorEvent' = [errorEvent EXCEPT ![o] = @ \/ ctl = "errTok"]
        \* the suspended receive continues after the listener has returned
        /\ resp' = IF st.out # <<>> THEN PacketResp(st.out[1], state) ELSE resp
        /\ lastSeq' = IF st.out # <<>>
                      THEN [lastSeq EXCEPT ![o] = st.out[1].seq] ELSE lastSeq
        /\ prevSeq' = IF st.out # <<>>
                      THEN [prevSeq EXCEPT ![o] = lastSeq[o]] ELSE prevSeq
        /\ turnFrames' = TurnFramesAfter(turnFrames, pkt)
  /\ UNCHANGED websockets
  /\ UNCHANGED <<session, socketID, retryCount, sendingAllowed, pc, ctx,
                 lastError, emitted>>
  /\ UNCHANGED <<heldObj, openedWith, reconnects, turnState, nTurns, nFails>>

\* a keepalive that would never find the socket stale
IsStaleNever(idleTicks) == FALSE

\* Date.now() - lastResponseTime > 30000, with the time since the last
\* message counted in keepalive periods
IsStale(idleTicks) == idleTicks >= 2

\* one tick of the keepalive interval of an open socket
KeepaliveTick(o) ==
  /\ UNCHANGED <<auxVars, busVars, authVars, rateVars, errorEvent, snapVars,
                 openVars, epVars, gptVars>>
  /\ pingInterval[o]
  /\ readyState[o] = OPEN
  /\ IF IsStale(idle[o])
     THEN /\ readyState' = [readyState EXCEPT ![o] = AfterCloseCall(@)]
          /\ UNCHANGED <<idle, unanswered>>
     ELSE \* ws.send(JSON.stringify({ event: "ping" }) + '\x1e')
          /\ unanswered' = [unanswered EXCEPT ![o] = @ + 1]
          /\ idle' = [idle EXCEPT ![o] = @ + 1]
          /\ UNCHANGED readyState
  /\ UNCHANGED <<websockets, buffer, readPromise, pingInterval,
                 connectionTimeout, nMsgs>>
  /\ UNCHANGED <<convVars, obsVars>>

\* the connection timeout fires: ws.close()
OnConnectionTimeout(o) ==
  /\ UNCHANGED <<auxVars, busVars, authVars, rateVars, extVars>>
  /\ connectionTimeout[o]
  /\ connectionTimeout' = [connectionTimeout EXCEPT ![o] = FALSE]
  /\ readyState' = [readyState EXCEPT ![o] = AfterCloseCall(@)]
  /\ UNCHANGED <<websockets, buffer, readPromise, pingInterval, idle, nMsgs>>
  /\ UNCHANGED <<convVars, obsVars>>

\* 'close' listener.  The event ends a closing handshake, a server-initiated
\* close or a failed connection.  The frames still buffered can no longer be
\* reached through the array and are dropped from the model, and so is the
\* count of its unanswered pings.
OnClose(o) ==
  /\ UNCHANGED <<auxVars, busVars, authVars, rateVars, errorEvent, snapVars,
                 openVars, epVars, gptVars>>
  /\ unanswered' = [unanswered EXCEPT ![o] = 0]
  /\ readyState[o] \in {CONNECTING, OPEN, CLOSING}
  /\ readyState' = [readyState EXCEPT ![o] = CLOSED]
  /\ connectionTimeout' = [connectionTimeout EXCEPT ![o] = FALSE]
  /\ pingInterval' = [pingInterval EXCEPT ![o] = FALSE]
  /\ websockets' = IF IndexOf(o) > -1 THEN Splice(websockets, IndexOf(o))
                   ELSE websockets
  /\ buffer' = [buffer EXCEPT ![o] = <<>>]
  /\ idle' = [idle EXCEPT ![o] = 0]
  /\ lastSeq' = [lastSeq EXCEPT ![o] = 0]
  /\ prevSeq' = [prevSeq EXCEPT ![o] = 0]
  /\ UNCHANGED <<readPromise, nMsgs>>
  /\ UNCHANGED <<convVars, heldObj, openedWith, turnFrames, reconnects,
                 turnState, nTurns, nFails>>

(* ============ calls of the conversation into the registry ============== *)

\* a retry delay computed from the attempts left instead of the attempts
\* made: Math.pow(2, tryTimes)
RegistryDelayFromTriesLeft(triesLeft) ==
  IF 1000 * 2^triesLeft < 5000 THEN 1000 * 2^triesLeft ELSE 5000

\* handleActionWebsocket: Math.min(1000 * Math.pow(2, 3 - tryTimes), 5000)
RegistryDelay(triesLeft) ==
  IF 1000 * 2^(3 - triesLeft) < 5000 THEN 1000 * 2^(3 - triesLeft) ELSE 5000

\* the delays handleActionWebsocket(action, triesLeft) waits while its next
\* `fails` constructions throw: none once tryTimes <= 0, where it answers
\* { error }
RECURSIVE RetryDelays(_, _)
RetryDelays(triesLeft, fails) ==
  IF fails = 0 \/ triesLeft <= 0
  THEN <<>>
  ELSE <<RegistryDelay(triesLeft)>> \o RetryDelays(triesLeft - 1, fails - 1)

\* createSocket: Math.min(1000 * Math.pow(2, this.retryCount), 5000)
RetryDelay(count) ==
  IF 1000 * 2^count < 5000 THEN 1000 * 2^count ELSE 5000

\* Each call fragment fixes the registry variables, the answer and the
\* position of the conversation; the action using it fixes the rest.

\* createSocket opens wss://...&accessToken=token; handleActionWebsocket with
\* socketID == null constructs and registers the socket and answers with its
\* position, or answers { error } when construction keeps failing
CallCreate(c, token) ==
  /\ pc' = "create"
  /\ ctx' = c
  /\ \/ \E fails \in 0..tryTimes :
          \* the construction throws `fails` times and then succeeds
          /\ CanConstruct
          /\ fails > 0 => nFails < failLimit
          /\ nFails' = IF fails > 0 THEN nFails + 1 ELSE nFails
          /\ regDelays' = RetryDelays(tryTimes, fails)
          /\ LET o == NextObj IN
             /\ websockets' = Append(websockets, o)
             /\ readyState' = [readyState EXCEPT ![o] = CONNECTING]
             /\ connectionTimeout' = [connectionTimeout EXCEPT ![o] = TRUE]
             /\ openedWith' = [openedWith EXCEPT ![o] = token]
             /\ resp' = [kind |-> "socketID", socketID |-> Len(websockets),
                         obj |-> o]
          /\ turnFrames' = IF c = "send" THEN <<>> ELSE turnFrames
          /\ UNCHANGED <<buffer, readPromise, pingInterval, idle, nMsgs,
                         seqVars>>
     \/ \* the construction throws on every attempt
        /\ nFails < failLimit
        /\ nFails' = nFails + 1
        /\ regDelays' = RetryDelays(tryTimes, tryTimes + 1)
        /\ resp' = ErrorResp("creation failed")
        /\ UNCHANGED <<regVars, openedWith, seqVars, turnFrames>>

\* handleActionWebsocket with toSend: the prompt frame
CallSend(id) ==
  /\ pc' = "sendPrompt"
  /\ ctx' = "none"
  /\ resp' = IF Lookup(id) = NoObj
             THEN ErrorResp("not available")
             ELSE IF readyState[Lookup(id)] # OPEN
                  THEN ErrorResp("WebSocket not in OPEN state")
                  ELSE [kind |-> "status", status |-> "Success"]
  /\ regDelays' = <<>>
  /\ UNCHANGED <<regVars, openedWith, seqVars, nFails, turnFrames>>

\* handleActionWebsocket without toSend: ws.stream.read()
CallReceive(id) ==
  /\ pc' = "recv"
  /\ ctx' = "none"
  /\ LET o == Lookup(id) IN
     IF o = NoObj
     THEN /\ resp' = ErrorResp("not available")
          /\ UNCHANGED <<buffer, readPromise, seqVars>>
     ELSE IF buffer[o] # <<>>
          THEN /\ resp' = PacketResp(StreamShift(buffer[o]).value, readyState[o])
               /\ buffer' = [buffer EXCEPT ![o] = StreamShift(buffer[o]).rest]
               /\ lastSeq' = [lastSeq EXCEPT ![o] =
                                StreamShift(buffer[o]).value.seq]
               /\ prevSeq' = [prevSeq EXCEPT ![o] = lastSeq[o]]
               /\ UNCHANGED readPromise
          ELSE /\ resp' = NoResp
               /\ readPromise' = [readPromise EXCEPT ![o] = TRUE]
               /\ UNCHANGED <<buffer, seqVars>>
  /\ regDelays' = <<>>
  /\ UNCHANGED <<websockets, readyState, pingInterval, connectionTimeout, idle,
                 nMsgs, openedWith, nFails, turnFrames>>

\* chrome.runtime.sendMessage({ action: 'copilot-auth' }) of fetchSession
CallAuth(c) ==
  /\ pc' = "init"
  /\ ctx' = c
  /\ resp' = NoResp
  /\ regDelays' = <<>>
  /\ UNCHANGED <<regVars, openedWith, seqVars, nFails, turnFrames>>

\* the async chain ends
NoCall ==
  /\ pc' = "idle"
  /\ ctx' = "none"
  /\ resp' = NoResp
  /\ regDelays' = <<>>
  /\ UNCHANGED <<regVars, openedWith, seqVars, nFails, turnFrames>>

(* ---- the iframe of the Transport Endpoint ---- *)

\* event.origin of a message: the extension's origin or any other
Origins == {"extension", "other"}

\* event.data of a message: { scripts, messageId, scriptElementId } or
\* { message: { action: 'socket', ... }, messageId }
DataKinds == {"scripts", "action"}

\* onReceiveMessageFromParent: event.origin === expectedOrigin
OriginAccepted(origin) == origin = "extension"

\* what onReceiveMessageFromParent does for a message
IframeScriptEffects(origin, kind) ==
  IF OriginAccepted(origin) /\ kind = "scripts"
  THEN << [origin |-> origin, effect |-> "insertScript"],
          [origin |-> origin, effect |-> "acknowledge"] >>
  ELSE <<>>

\* what the message listener of the socket script does for a message: it
\* hands event.data.message to handleMessage, whose default branch is
\* handleActionWebsocket, and posts the answer to the parent; for a message
\* without a message property handleMessage throws and nothing is posted
SocketScriptEffects(origin, kind) ==
  IF kind = "action"
  THEN << [origin |-> origin, effect |-> "handleActionWebsocket"],
          [origin |-> origin, effect |-> "reply"] >>
  ELSE <<>>

\* a message event on the iframe window: every registered listener runs
IframeMessage(origin, kind) ==
  /\ nEpMsgs < MaxEpMsgs
  /\ nEpMsgs' = nEpMsgs + 1
  /\ epEffects' = epEffects \o IframeScriptEffects(origin, kind)
                     \o (IF epScript = "running"
                         THEN SocketScriptEffects(origin, kind) ELSE <<>>)
  /\ epScript' = IF IframeScriptEffects(origin, kind) # <<>> /\
                    epScript = "none"
                 THEN "inserted" ELSE epScript
  \* lastResponseTime = Date.now() after the scripts were inserted
  /\ ifIdle' = IF IframeScriptEffects(origin, kind) # <<>> THEN 0 ELSE ifIdle
  \* a { scripts } message of the extension is one that
  \* injectScriptToIframe posted, if one is in flight
  /\ scriptsPosted' = IF origin = "extension" /\ kind = "scripts" /\
                         scriptsPosted > 0
                      THEN scriptsPosted - 1 ELSE scriptsPosted
  /\ UNCHANGED <<ifLoads, hostInbox, readySeen, epSockOpen, epSockIdle,
                 epFrames>>
  /\ UNCHANGED <<regVars, convVars, obsVars, auxVars, busVars, authVars,
                 rateVars, wireVars, snapVars, openVars, gptVars>>

\* the inserted socket script has loaded and runs: it posts
\* 'socket-script-ready' to the parent and registers its message listener;
\* the onload handler of the script element sets lastResponseTime
SocketScriptLoaded ==
  /\ epScript = "inserted"
  /\ epScript' = "running"
  /\ hostInbox' = Append(hostInbox, "socket-script-ready")
  /\ ifIdle' = 0
  /\ UNCHANGED <<epEffects, nEpMsgs>>
  /\ UNCHANGED <<ifLoads, scriptsPosted, readySeen, epSockOpen, epSockIdle,
                 epFrames>>
  /\ UNCHANGED <<regVars, convVars, obsVars, auxVars, busVars, authVars,
                 rateVars, wireVars, snapVars, openVars, gptVars>>

\* the message listener of the offscreen window for the strings the iframe
\* posts: 'iframe-script-ready' makes injectScriptToIframe post { scripts }
\* to the iframe, 'socket-script-ready' sets socketScriptReady.val = true
OffscreenMessage ==
  /\ hostInbox # <<>>
  /\ hostInbox' = Tail(hostInbox)
  /\ IF Head(hostInbox) = "iframe-script-ready"
     THEN /\ scriptsPosted' = scriptsPosted + 1
          /\ UNCHANGED readySeen
     ELSE /\ readySeen' = readySeen + 1
          /\ UNCHANGED scriptsPosted
  /\ UNCHANGED <<epScript, epEffects, nEpMsgs, ifIdle, ifLoads, epSockOpen,
                 epSockIdle, epFrames>>
  /\ UNCHANGED <<regVars, convVars, obsVars, auxVars, busVars, authVars,
                 rateVars, wireVars, snapVars, openVars, gptVars>>

\* the { scripts } message that injectScriptToIframe posted arrives
InjectedScripts ==
  /\ scriptsPosted > 0
  /\ IframeMessage("extension", "scripts")

\* Date.now() - lastResponseTime > 30000 at a tick of the 15 s interval,
\* with the time since lastResponseTime counted in timer periods
ReloadDue(idleTicks) == idleTicks >= 2

\* one tick of the iframe script's interval: window.location.reload() when
\* the reload is due.  The reload discards the document with the socket
\* script and the registry's sockets; the iframe script runs again, sets
\* lastResponseTime and posts 'iframe-script-ready'
ReloadTimerTick ==
  /\ IF ReloadDue(ifIdle)
     THEN /\ ifLoads < MaxReloads
          /\ ifLoads' = ifLoads + 1
          /\ ifIdle' = 0
          /\ epScript' = "none"
          /\ epSockOpen' = FALSE
          /\ epSockIdle' = 0
          /\ epFrames' = 0
          /\ hostInbox' = Append(hostInbox, "iframe-script-ready")
     ELSE /\ ifIdle' = ifIdle + 1
          /\ epSockIdle' = IF epSockOpen /\ epSockIdle < MaxSockIdle
                           THEN epSockIdle + 1 ELSE epSockIdle
          /\ UNCHANGED <<ifLoads, epScript, epSockOpen, epFrames, hostInbox>>
  /\ UNCHANGED <<epEffects, nEpMsgs, scriptsPosted, readySeen>>
  /\ UNCHANGED <<regVars, convVars, obsVars, auxVars, busVars, authVars,
                 rateVars, wireVars, snapVars, openVars, gptVars>>

\* the registry inside the iframe opens a socket (the socket script runs
\* handleActionWebsocket and the open event arrives)
EpSocketOpen ==
  /\ epScript = "running"
  /\ ~epSockOpen
  /\ epSockOpen' = TRUE
  /\ epSockIdle' = 0
  /\ epFrames' = 0
  /\ UNCHANGED <<epScript, epEffects, nEpMsgs, ifIdle, ifLoads, hostInbox,
                 scriptsPosted, readySeen>>
  /\ UNCHANGED <<regVars, convVars, obsVars, auxVars, busVars, authVars,
                 rateVars, wireVars, snapVars, openVars, gptVars>>

\* a frame is sent or received on the open socket inside the iframe
EpSocketFrame ==
  /\ epSockOpen
  /\ epFrames < MaxEpFrames
  /\ epFrames' = epFrames + 1
  /\ epSockIdle' = 0
  /\ UNCHANGED <<epScript, epEffects, nEpMsgs, ifIdle, ifLoads, hostInbox,
                 scriptsPosted, readySeen, epSockOpen>>
  /\ UNCHANGED <<regVars, convVars, obsVars, auxVars, busVars, authVars,
                 rateVars, wireVars, snapVars, openVars, gptVars>>

NextReload ==
  \/ OffscreenMessage
  \/ InjectedScripts
  \/ SocketScriptLoaded
  \/ ReloadTimerTick
  \/ EpSocketOpen
  \/ EpSocketFrame

NextEndpoint ==
  \/ \E origin \in Origins, kind \in DataKinds : IframeMessage(origin, kind)
  \/ SocketScriptLoaded

(* ---- one open call, invocation by invocation ---- *)

\* the wait after a refused admission check: setTimeout(resolve, 5000)
rateLimitWait == 5000

\* a retry that would keep its attempt budget
TriesAfterThrowKept(triesLeft) == triesLeft

\* the retry after a construction that threw:
\* handleActionWebsocket(action, tryTimes - 1)
TriesAfterThrow(triesLeft) == triesLeft - 1

\* an invocation finds the rate limit exceeded: it waits 5 s and re-invokes
\* handleActionWebsocket(action, tryTimes)
OpenRateLimited ==
  /\ openOut = "none"
  /\ nRateWaits < MaxRateWaits
  /\ nRateWaits' = nRateWaits + 1
  /\ openWaits' = Append(openWaits, rateLimitWait)
  /\ UNCHANGED <<openTries, openOut, constructions>>
  /\ UNCHANGED <<regVars, convVars, obsVars, auxVars, busVars, authVars,
                 rateVars, wireVars, snapVars, epVars, gptVars>>

\* an invocation is admitted and its construction throws: with no attempt
\* left it answers { error }, otherwise it waits and re-invokes with one
\* attempt less
OpenThrows ==
  /\ openOut = "none"
  /\ constructions' = constructions + 1
  /\ IF openTries <= 0
     THEN /\ openOut' = "error"
          /\ UNCHANGED <<openTries, openWaits>>
     ELSE /\ openWaits' = Append(openWaits, RegistryDelay(openTries))
          /\ openTries' = TriesAfterThrow(openTries)
          /\ UNCHANGED openOut
  /\ UNCHANGED nRateWaits
  /\ UNCHANGED <<regVars, convVars, obsVars, auxVars, busVars, authVars,
                 rateVars, wireVars, snapVars, epVars, gptVars>>

\* an invocation is admitted and constructs the socket: { socketID }
OpenConstructs ==
  /\ openOut = "none"
  /\ constructions' = constructions + 1
  /\ openOut' = "socketID"
  /\ UNCHANGED <<openTries, openWaits, nRateWaits>>
  /\ UNCHANGED <<regVars, convVars, obsVars, auxVars, busVars, authVars,
                 rateVars, wireVars, snapVars, epVars, gptVars>>

NextOpen == OpenRateLimited \/ OpenThrows \/ OpenConstructs

(* ========================= BingChatSession ============================= *)

\* a createSocket that would open the socket with a token other than the
\* Session's
SocketUrlTokenStale(s) == "stale"

\* a createSocket without its guard
HasAccessTokenUnchecked(s) == TRUE

\* createSocket: this.session?.accessToken is there
HasAccessToken(s) == s.accessToken # "none"

\* createSocket: the accessToken parameter of the socket URL
SocketUrlToken(s) == s.accessToken

\* the conversation id fetchSession installs: this.uuid
uuid == "u0"

\* ChatSession.canSend: a Session is present
canSend(s) == s # NoSession

\* ChatSession.allowSend and ChatSession.disableSend: the value they give
\* to sendingAllowed
allowSend == TRUE
disableSend == FALSE

\* a handleActionError that would clear the Session on every error
SessionAfterErrorCleared(e, s) == NoSession

\* handleActionError: the Session after the error was handled
SessionAfterError(e, s) == IF e = "connectionLost" THEN NoSession ELSE s

\* handleActionError: this.socketID after the error was handled
SocketAfterError(e, id) == IF e = "connectionLost" THEN NoSocket ELSE id

\* ChatSession.onErrorMessage: the error is shown and sending is re-enabled
OnErrorMessage(e) == allowSend

\* handleActionError(e) ending the chain, with Session s and socket id in
\* place when the error was thrown
HandleActionError(e, s, id) ==
  /\ lastError' = e
  /\ session' = SessionAfterError(e, s)
  /\ socketID' = SocketAfterError(e, id)
  /\ heldObj' = IF SocketAfterError(e, id) = NoSocket THEN NoObj ELSE heldObj
  /\ sendingAllowed' = OnErrorMessage(e)
  /\ turnState' = IF e = "authRequired" THEN "Parked" ELSE "Fatal"
  /\ NoCall

\* line.trim() of a fragment
Trim(line) == IF line = " " THEN "" ELSE line

\* what JSON.parse(line) gives inside the try of next(): the frame, or null
\* after a logged parse error
Null == "null"
ParseOrNull(line) == IF line \in Frames THEN line ELSE Null

\* a split that keeps the fragments that are empty after trim()
FragmentsUntrimmed(pkt) == pkt

\* packet.split('\x1e').filter(line => line.trim())
Fragments(pkt) == SelectSeq(pkt, LAMBDA line : Trim(line) # "")

\* .map(line => { try { return JSON.parse(line) } catch { return null } })
ParseAll(lines) == [i \in 1..Len(lines) |-> ParseOrNull(lines[i])]

\* the frame split of next(): the messages array, after .filter(msg => msg)
SplitFrames(pkt) ==
  SelectSeq(ParseAll(Fragments(pkt)), LAMBDA msg : msg # Null)

\* 'Message parse error' lines the split of one packet logs
ParseErrorCount(pkt) ==
  Len(SelectSeq(ParseAll(Fragments(pkt)), LAMBDA msg : msg = Null))

\* a loop that would go on after an error frame that names no token
RECURSIVE DispatchPastError(_, _)
DispatchPastError(fs, em) ==
  IF fs = <<>> THEN [out |-> "next", emitted |-> em]
  ELSE IF Head(fs) \in TextFrames
       THEN DispatchPastError(Tail(fs), Append(em, Head(fs)))
       ELSE IF Head(fs) \in {"errTok", "disconnect", "done"}
            THEN [out |-> Head(fs), emitted |-> em]
            ELSE DispatchPastError(Tail(fs), em)

\* the loop of next() over the frames of one packet, up to its first
\* return, throw or await
RECURSIVE Dispatch(_, _)
Dispatch(fs, em) ==
  IF fs = <<>> THEN [out |-> "next", emitted |-> em]
  ELSE IF Head(fs) \in TextFrames
       THEN Dispatch(Tail(fs), Append(em, Head(fs)))
       ELSE IF Head(fs) \in {"errTok", "errOther", "disconnect", "done"}
            THEN [out |-> Head(fs), emitted |-> em]
            ELSE Dispatch(Tail(fs), em)

\* a setupAndSend without its guard
MayStartTurnAlways(allowed) == TRUE

\* setupAndSend: if (!this.sendingAllowed) return
MayStartTurn(allowed) == allowed

\* a listener that would leave the Session absent
SessionFromSignalDropped(token) == NoSession

\* generateUUID() in the auth-complete listener
newUuid == "u1"

\* the Session the auth-complete listener installs
SessionFromSignal(token) == [accessToken |-> token, conversationId |-> newUuid]

\* chrome.storage.local holds no 'copilot_session'
NoSnapshot == [present |-> FALSE, accessToken |-> "none", timestamp |-> 0]

\* saveSession: { accessToken: this.session.accessToken,
\* timestamp: Date.now() }
Snapshot(token, now) ==
  [present |-> TRUE, accessToken |-> token, timestamp |-> now]

\* restoreSession: Date.now() - saved.timestamp < 3600000
IsFreshSnapshot(age) == age < snapshotTtl

\* milliseconds that pass between two events of the page
PageClockSteps == {1, snapshotTtl - 1}

\* restoreSession(), called by the constructor and when the tab becomes
\* visible, from the answer of chrome.storage.local.get on: a snapshot
\* younger than one hour becomes the Session, an older one is removed
RestoreSession ==
  /\ nRestores < MaxRestores
  /\ nRestores' = nRestores + 1
  /\ IF snapshot.present /\ IsFreshSnapshot(pageClock - snapshot.timestamp)
     THEN /\ session' = [accessToken |-> snapshot.accessToken,
                         conversationId |-> newUuid]
          /\ UNCHANGED snapshot
     ELSE /\ snapshot' = NoSnapshot
          /\ UNCHANGED session
  /\ UNCHANGED <<pageClock, nPageTicks>>
  /\ UNCHANGED <<socketID, retryCount, sendingAllowed, pc, ctx, resp,
                 lastError, emitted>>
  /\ UNCHANGED <<regVars, obsVars, auxVars, busVars, authVars, rateVars,
                 wireVars, openVars, epVars, gptVars>>

\* time passes in the page
PageClockAdvance(d) ==
  /\ nPageTicks < MaxPageTicks
  /\ nPageTicks' = nPageTicks + 1
  /\ pageClock' = pageClock + d
  /\ UNCHANGED <<snapshot, nRestores>>
  /\ UNCHANGED <<regVars, convVars, obsVars, auxVars, busVars, authVars,
                 rateVars, wireVars, openVars, epVars, gptVars>>

\* setupAndSend(prompt) up to its first suspension
SetupAndSend ==
  /\ UNCHANGED <<failLimit, delay, parseErrors, nSignals, busVars, authVars,
                 rateVars, extVars>>
  /\ pc = "idle"
  /\ MayStartTurn(sendingAllowed)
  /\ nTurns < MaxTurns
  /\ nTurns' = nTurns + 1
  /\ sendingAllowed' = disableSend
  /\ turnState' = "Running"
  /\ emitted' = <<>>
  /\ reconnects' = 0
  /\ UNCHANGED <<session, socketID, retryCount, lastError, heldObj>>
  /\ IF canSend(session) THEN CallCreate("send", SocketUrlToken(session)) ELSE CallAuth("setup")

\* the auth-complete message with an access token arrives: the listener
\* installs a Session and calls setupAndSend(), which returns at once unless
\* sending is allowed.  The message does not arrive while removeConversation
\* waits for the close call.
AuthComplete(token) ==
  /\ UNCHANGED <<failLimit, delay, parseErrors, busVars, authVars, rateVars,
                 wireVars, openVars, epVars, gptVars>>
  \* this.saveSession()
  /\ snapshot' = Snapshot(token, pageClock)
  /\ UNCHANGED <<pageClock, nRestores, nPageTicks>>
  /\ pc # "removing"
  /\ nSignals < MaxSignals
  /\ nSignals' = nSignals + 1
  /\ session' = SessionFromSignal(token)
  /\ UNCHANGED <<socketID, retryCount, lastError, heldObj, nTurns>>
  /\ IF MayStartTurn(sendingAllowed)
     THEN /\ sendingAllowed' = disableSend
          /\ turnState' = "Running"
          /\ emitted' = <<>>
          /\ reconnects' = 0
          /\ IF canSend(session')
             THEN CallCreate("send", SocketUrlToken(session'))
             ELSE CallAuth("setup")
     ELSE UNCHANGED <<sendingAllowed, turnState, emitted, reconnects, pc, ctx,
                      resp, regVars, openedWith, seqVars, nFails, turnFrames,
                      regDelays>>

\* the answer to the copilot-auth request arrives in fetchSession
AuthResponse(outcome) ==
  /\ UNCHANGED <<failLimit, delay, parseErrors, nSignals, busVars, authVars,
                 rateVars, wireVars, openVars, epVars, gptVars>>
  /\ UNCHANGED <<pageClock, nRestores, nPageTicks>>
  /\ pc = "init"
  \* fetchSession ends with await this.saveSession()
  /\ snapshot' = IF outcome \in Tokens THEN Snapshot(outcome, pageClock)
                 ELSE snapshot
  /\ IF outcome \in Tokens
     THEN /\ session' = [accessToken |-> outcome, conversationId |-> uuid]
          /\ UNCHANGED <<socketID, heldObj, sendingAllowed, lastError,
                         turnState>>
          \* setupAndSend goes on to send(); next() goes on to createSocket()
          /\ CallCreate(IF ctx = "setup" THEN "send" ELSE "tokenErr",
                        SocketUrlToken(session'))
     ELSE HandleActionError(outcome, session, socketID)
  /\ UNCHANGED <<retryCount, emitted, reconnects, nTurns>>

\* the answer to the create call arrives in createSocket
CreateReturn ==
  /\ UNCHANGED <<failLimit, parseErrors, nSignals, busVars, authVars, rateVars, extVars>>
  /\ pc = "create"
  /\ resp.kind # "none"
  /\ IF resp.kind = "socketID"
     THEN /\ retryCount' = 0
          /\ socketID' = resp.socketID
          /\ heldObj' = resp.obj
          /\ UNCHANGED <<session, sendingAllowed, lastError, turnState, delay>>
          /\ IF ctx = "send" THEN CallSend(resp.socketID)
                             ELSE CallReceive(resp.socketID)
     ELSE /\ retryCount' = retryCount + 1
          /\ IF retryCount + 1 < maxRetries
             THEN /\ pc' = "backoff"
                  /\ resp' = NoResp
                  /\ regDelays' = <<>>
                  /\ delay' = RetryDelay(retryCount + 1)
                  /\ UNCHANGED <<ctx, regVars, openedWith, seqVars, nFails,
                                 turnFrames>>
                  /\ UNCHANGED <<session, socketID, heldObj, sendingAllowed,
                                 lastError, turnState>>
             ELSE /\ HandleActionError("createFailed", session,
                                       IF ctx = "send" THEN NoSocket
                                       ELSE socketID)
                  /\ UNCHANGED delay
  /\ UNCHANGED <<emitted, reconnects, nTurns>>

\* the backoff delay of createSocket is over: createSocket() again
BackoffDone ==
  /\ UNCHANGED <<failLimit, parseErrors, nSignals, busVars, authVars, rateVars, extVars>>
  /\ delay' = 0
  /\ pc = "backoff"
  /\ IF ~HasAccessToken(session)
     THEN HandleActionError("sessionError", session,
                            IF ctx = "send" THEN NoSocket ELSE socketID)
     ELSE /\ CallCreate(ctx, SocketUrlToken(session))
          /\ UNCHANGED <<session, socketID, heldObj, sendingAllowed, lastError,
                         turnState>>
  /\ UNCHANGED <<retryCount, emitted, reconnects, nTurns>>

\* the answer to socketSend arrives in send(), which goes on to next()
SendReturn ==
  /\ UNCHANGED <<failLimit, delay, parseErrors, nSignals, busVars, authVars,
                 rateVars, extVars>>
  /\ pc = "sendPrompt"
  /\ resp.kind # "none"
  /\ CallReceive(socketID)
  /\ UNCHANGED <<session, socketID, retryCount, sendingAllowed, lastError,
                 emitted>>
  /\ UNCHANGED <<heldObj, reconnects, turnState, nTurns>>

\* next(): the reconnection after a disconnect or a socket that is not open;
\* e is the error thrown when the retry budget is used up
Reconnect(e, em) ==
  IF retryCount < maxRetries
  THEN /\ socketID' = NoSocket
       /\ heldObj' = NoObj
       /\ reconnects' = (IF em # emitted THEN 0 ELSE reconnects) + 1
       /\ UNCHANGED <<session, sendingAllowed, lastError, turnState>>
       /\ CallCreate("reconnect", SocketUrlToken(session))
  ELSE /\ HandleActionError(e, session, socketID)
       /\ UNCHANGED reconnects

\* the answer to socketReceive arrives in next()
RecvReturn ==
  /\ UNCHANGED <<failLimit, delay, nSignals, busVars, authVars, rateVars, extVars>>
  /\ pc = "recv"
  /\ resp.kind # "none"
  /\ UNCHANGED <<retryCount, nTurns>>
  /\ IF resp.kind = "error" \/ resp.readyState # OPEN
     THEN /\ Reconnect("connectionLost", emitted)
          /\ UNCHANGED <<emitted, parseErrors>>
     ELSE LET d == Dispatch(SplitFrames(resp.packet.frames), emitted) IN
          /\ emitted' = d.emitted
          /\ parseErrors' = parseErrors + ParseErrorCount(resp.packet.frames)
          /\ CASE d.out = "next" ->
                  /\ CallReceive(socketID)
                  /\ reconnects' = IF d.emitted # emitted THEN 0 ELSE reconnects
                  /\ UNCHANGED <<session, socketID, heldObj, sendingAllowed,
                                 lastError, turnState>>
               [] d.out = "done" ->
                  /\ sendingAllowed' = allowSend
                  /\ turnState' = "Done"
                  /\ NoCall
                  /\ UNCHANGED <<session, socketID, heldObj, lastError,
                                 reconnects>>
               [] d.out = "errTok" ->
                  /\ session' = NoSession
                  /\ CallAuth("tokenErr")
                  /\ UNCHANGED <<socketID, heldObj, sendingAllowed, lastError,
                                 turnState, reconnects>>
               [] d.out = "disconnect" ->
                  Reconnect("terminated", d.emitted)
               [] d.out = "errOther" ->
                  /\ HandleActionError("errOther", session, socketID)
                  /\ UNCHANGED reconnects

\* removeConversation(): with a socket id, up to the answer of the close
\* call (ws.close(), websockets[socketID] = null, then polling for CLOSED);
\* without one, the conversation is cleared at once.  It is called between
\* turns, or while createSocket waits for its retry and no socket is held.
RemoveConversation ==
  /\ UNCHANGED <<auxVars, busVars, authVars, rateVars, wireVars, openVars,
                 epVars, gptVars>>
  /\ UNCHANGED <<pageClock, nRestores, nPageTicks>>
  \* chrome.storage.local.remove('copilot_session'), once the close call has
  \* answered
  /\ snapshot' = IF socketID = NoSocket THEN NoSnapshot ELSE snapshot
  /\ pc = "idle" \/ (pc = "backoff" /\ socketID = NoSocket)
  /\ session # NoSession
  /\ UNCHANGED <<buffer, readPromise, pingInterval, connectionTimeout, idle,
                 nMsgs>>
  /\ UNCHANGED <<socketID, sendingAllowed, lastError, emitted>>
  /\ UNCHANGED <<heldObj, openedWith, turnFrames, reconnects, seqVars, nTurns,
                 nFails>>
  /\ IF socketID = NoSocket
     THEN /\ session' = NoSession
          /\ retryCount' = 0
          /\ turnState' = IF pc = "idle" THEN "Idle" ELSE turnState
          /\ UNCHANGED <<websockets, readyState, pc, ctx, resp>>
     ELSE /\ pc' = "removing"
          /\ ctx' = "none"
          /\ UNCHANGED <<session, retryCount, turnState>>
          /\ LET o == Lookup(socketID) IN
             IF o = NoObj
             THEN /\ resp' = ErrorResp("not available")
                  /\ UNCHANGED <<websockets, readyState>>
             ELSE /\ resp' = [kind |-> "closing", obj |-> o]
                  /\ readyState' = [readyState EXCEPT ![o] = AfterCloseCall(@)]
                  /\ websockets' = [websockets EXCEPT ![socketID + 1] = NoObj]

\* the close call has answered; removeConversation clears the conversation
RemoveReturn ==
  /\ UNCHANGED <<failLimit, delay, parseErrors, nSignals, busVars, authVars,
                 rateVars, wireVars, openVars, epVars, gptVars>>
  /\ UNCHANGED <<pageClock, nRestores, nPageTicks>>
  /\ snapshot' = NoSnapshot
  /\ pc = "removing"
  /\ resp.kind = "closing" => readyState[resp.obj] = CLOSED
  /\ socketID' = NoSocket
  /\ heldObj' = NoObj
  /\ session' = NoSession
  /\ retryCount' = 0
  /\ turnState' = "Idle"
  /\ UNCHANGED <<sendingAllowed, lastError, emitted, reconnects, nTurns>>
  /\ NoCall

(* ========================= ChatGPTSession ============================== *)

\* the message records of the event stream
Records == {1, 2}

\* data.conversation_id and data.message.id of a record
ConversationIdOf(r) == IF r = 1 THEN "c1" ELSE "c2"
MessageIdOf(r) == IF r = 1 THEN "m1" ELSE "m2"

\* a property of this.session that was never assigned
Undefined == "undefined"

\* generateUUID() in config
FreshUuid == "fresh"

\* the text of the stream in pieces: the beginning of a record, from
\* 'data: {"message": {"id": ' up to some point inside its JSON text; the
\* rest of the record up to the blank line after it; the text 'data: [DONE]'
RecHead(r) == [part |-> "head", rec |-> r]
RecTail(r) == [part |-> "tail", rec |-> r]
DoneText == [part |-> "done", rec |-> 0]

\* the packets receivePacket answers with: whole records, records cut in
\* two, a record followed by the beginning of the next, a record followed
\* by 'data: [DONE]' in the same packet
GptChunks ==
  { <<RecHead(1), RecTail(1)>>, <<RecHead(1)>>, <<RecTail(1)>>,
    <<RecHead(2), RecTail(2)>>, <<RecTail(2)>>,
    <<RecHead(1), RecTail(1), RecHead(2)>>,
    <<RecHead(2), RecTail(2), DoneText>> }

\* a buffer that would be replaced by the packet
AccumulateReplaced(buf, packet) == packet

\* this.buffer ??= ''; this.buffer += packet
Accumulate(buf, packet) == buf \o packet

\* this.buffer.lastIndexOf(`data: {"message": {"id": `): the piece the last
\* record begins with, 0 when the text is not in the buffer
LastIndexOfMessage(buf) ==
  IF \E i \in 1..Len(buf) : buf[i].part = "head"
  THEN CHOOSE i \in 1..Len(buf) :
         /\ buf[i].part = "head"
         /\ \A j \in (i + 1)..Len(buf) : buf[j].part # "head"
  ELSE 0

\* this.buffer.substring(startJSON): from the last record's JSON text on;
\* when the text is not found, the buffer from its sixth character on
ToParse(buf) ==
  IF LastIndexOfMessage(buf) = 0 THEN buf
  ELSE SubSeq(buf, LastIndexOfMessage(buf), Len(buf))

\* JSON.parse(toParse) returns: the text is one whole record, followed by
\* white space only
JsonParses(tp) ==
  /\ Len(tp) = 2
  /\ tp[1].part = "head"
  /\ tp[2].part = "tail"
  /\ tp[2].rec = tp[1].rec

\* the catch clause: "if (!e instanceof SyntaxError) throw e" tests
\* (!e) instanceof SyntaxError, which is false for every e
Rethrows(isSyntaxError) == FALSE

\* a config that would always take a new parent message id
ParentMessageIdFresh(s) == FreshUuid

\* config: this.session.parent_message_id ? ... : generateUUID()
ParentMessageId(s) ==
  IF s.parent_message_id # Undefined THEN s.parent_message_id ELSE FreshUuid

\* config(prompt): parent_message_id, and conversation_id when the session
\* has one
Config(s) ==
  [parent_message_id |-> ParentMessageId(s),
   conversation_id |-> s.conversation_id]

\* send(prompt): the request is built from the session and the event
\* stream is opened; next() follows.  Sending is disabled during the turn.
GptSend ==
  /\ gPc = "idle"
  /\ gSending
  /\ nGptTurns < MaxGptTurns
  /\ nGptTurns' = nGptTurns + 1
  /\ gSending' = disableSend
  /\ gConfig' = Config(gSession)
  /\ gPc' = "recv"
  /\ UNCHANGED <<gBuffer, gSession, gChunk, gOutcome, gLastParsed, nGptChunks>>
  /\ UNCHANGED <<regVars, convVars, obsVars, auxVars, busVars, authVars,
                 rateVars, wireVars, snapVars, openVars, epVars>>

\* next() with a packet that does not end the turn
GptChunk(packet) ==
  /\ gPc = "recv"
  /\ nGptChunks < MaxGptChunks
  /\ nGptChunks' = nGptChunks + 1
  /\ gChunk' = packet
  /\ LET buf == Accumulate(gBuffer, packet)
         toParse == ToParse(buf)
     IN IF JsonParses(toParse)
        THEN /\ gBuffer' = <<>>
             /\ gSession' = [conversation_id |-> ConversationIdOf(toParse[1].rec),
                             parent_message_id |-> MessageIdOf(toParse[1].rec)]
             /\ gLastParsed' = toParse[1].rec
             /\ gOutcome' = "parsed"
             /\ gPc' = "recv"
        ELSE /\ gBuffer' = buf
             /\ gOutcome' = "failed"
             /\ gPc' = IF Rethrows(TRUE) THEN "error" ELSE "recv"
             /\ UNCHANGED <<gSession, gLastParsed>>
  /\ UNCHANGED <<gSending, gConfig, nGptTurns>>
  /\ UNCHANGED <<regVars, convVars, obsVars, auxVars, busVars, authVars,
                 rateVars, wireVars, snapVars, openVars, epVars>>

\* next() with done, an empty packet or a packet that starts with
\* 'data: [DONE]': allowSend() and return
GptDone ==
  /\ gPc = "recv"
  /\ gOutcome' = "done"
  /\ gSending' = allowSend
  /\ gPc' = "idle"
  /\ UNCHANGED <<gBuffer, gSession, gChunk, gLastParsed, gConfig, nGptChunks,
                 nGptTurns>>
  /\ UNCHANGED <<regVars, convVars, obsVars, auxVars, busVars, authVars,
                 rateVars, wireVars, snapVars, openVars, epVars>>

InitGpt ==
  /\ gBuffer = <<>>
  /\ gSession = [conversation_id |-> Undefined, parent_message_id |-> Undefined]
  /\ gSending = TRUE
  /\ gPc = "idle"
  /\ gChunk = <<>>
  /\ gOutcome = "none"
  /\ gLastParsed = 0
  /\ gConfig = [parent_message_id |-> Undefined, conversation_id |-> Undefined]
  /\ nGptChunks = 0
  /\ nGptTurns = 0

NextGpt ==
  \/ GptSend
  \/ \E packet \in GptChunks : GptChunk(packet)
  \/ GptDone

(* ===================== offscreen message bus =========================== *)

Calls == 1..MaxCalls
\* socketScriptReady._listener is still the initial () => {}
NoCaller == 0
\* values of Math.random().toString(36).substring(7)
MsgIds == {"m1", "m2"}
\* event.data.messageId of a message that carries none
NoId == "undefined"

\* a message event on the offscreen window: the string 'socket-script-ready'
\* or an object { message, messageId }
ReadyMsg == [kind |-> "socket-script-ready", message |-> 0, messageId |-> NoId]
ObjectMsg(m, id) == [kind |-> "object", message |-> m, messageId |-> id]

\* messageHandler: event.data && event.data.messageId === messageId
HandlerMatches(m, id) == m.kind = "object" /\ m.messageId = id

\* a messageHandler that would stay registered after it has matched
HandlersKept(hs, matched) == hs

\* messageHandler: window.removeEventListener('message', messageHandler)
\* in the handlers that matched
HandlersAfterMatch(hs, matched) == hs \ matched

\* the rest of sendMessageToIframe once readiness is known: generate the
\* messageId, add the messageHandler and post the message to the iframe
Forward(c, id) ==
  /\ messageId' = [messageId EXCEPT ![c] = id]
  /\ handlers' = handlers \cup {c}
  /\ toIframe' = toIframe \cup {[call |-> c, messageId |-> id]}
  /\ callPc' = [callPc EXCEPT ![c] = "waitReply"]

\* sendMessageToIframe(message) up to its first suspension; the calls are
\* numbered in the order they are made
SendMessageToIframe(c) ==
  /\ callPc[c] = "new"
  /\ \A d \in Calls : d < c => callPc[d] # "new"
  /\ IF ~val
     THEN \* await socketScriptReady.promise: the getter replaces _listener
          /\ listener' = c
          /\ callPc' = [callPc EXCEPT ![c] = "waitReady"]
          /\ UNCHANGED <<messageId, handlers, toIframe>>
     ELSE /\ \E id \in MsgIds : Forward(c, id)
          /\ UNCHANGED listener
  /\ UNCHANGED <<val, toParent, scriptLoaded, resolveCount, resolvedBy,
                 laterSame, nStray>>
  /\ UNCHANGED <<regVars, convVars, obsVars, auxVars, authVars, rateVars, extVars>>

\* a call released by socketScriptReady._listener continues
Resume(c) ==
  /\ callPc[c] = "released"
  /\ \E id \in MsgIds : Forward(c, id)
  /\ UNCHANGED <<val, listener, toParent, scriptLoaded, resolveCount,
                 resolvedBy, laterSame, nStray>>
  /\ UNCHANGED <<regVars, convVars, obsVars, auxVars, authVars, rateVars, extVars>>

\* bing_socket.js runs in the iframe and announces itself
SocketScriptRuns ==
  /\ ~scriptLoaded
  /\ scriptLoaded' = TRUE
  /\ toParent' = Append(toParent, ReadyMsg)
  /\ UNCHANGED <<val, listener, callPc, messageId, handlers, toIframe,
                 resolveCount, resolvedBy, laterSame, nStray>>
  /\ UNCHANGED <<regVars, convVars, obsVars, auxVars, authVars, rateVars, extVars>>

\* the message listener of bing_socket.js answers one message; handleMessage
\* is awaited, so answers may overtake one another
EndpointReply ==
  /\ scriptLoaded
  /\ \E e \in toIframe :
       /\ toIframe' = toIframe \ {e}
       /\ toParent' = Append(toParent, ObjectMsg(e.call, e.messageId))
  /\ UNCHANGED <<val, listener, callPc, messageId, handlers, scriptLoaded,
                 resolveCount, resolvedBy, laterSame, nStray>>
  /\ UNCHANGED <<regVars, convVars, obsVars, auxVars, authVars, rateVars, extVars>>

\* another sender posts an object to the offscreen window, for instance the
\* iframe script's acknowledge(), whose messageId is undefined
StrayMessage(id) ==
  /\ nStray < MaxStray
  /\ nStray' = nStray + 1
  /\ toParent' = Append(toParent, ObjectMsg(0, id))
  /\ UNCHANGED <<val, listener, callPc, messageId, handlers, toIframe,
                 scriptLoaded, resolveCount, resolvedBy, laterSame>>
  /\ UNCHANGED <<regVars, convVars, obsVars, auxVars, authVars, rateVars, extVars>>

\* one message event on the offscreen window: the listener of setupIframe
\* and every messageHandler run
WindowMessage ==
  /\ toParent # <<>>
  /\ LET m == Head(toParent)
         matched == {c \in handlers : HandlerMatches(m, messageId[c])}
     IN /\ toParent' = Tail(toParent)
        /\ IF m.kind = "socket-script-ready"
           THEN \* socketScriptReady.val = true: the setter calls _listener
                /\ val' = TRUE
                /\ callPc' = [c \in Calls |->
                                IF c = listener /\ callPc[c] = "waitReady"
                                THEN "released" ELSE callPc[c]]
           ELSE /\ callPc' = [c \in Calls |->
                                IF c \in matched THEN "resolved" ELSE callPc[c]]
                /\ UNCHANGED val
        /\ handlers' = HandlersAfterMatch(handlers, matched)
        /\ resolveCount' = [c \in Calls |->
                              IF c \in matched THEN resolveCount[c] + 1
                              ELSE resolveCount[c]]
        /\ resolvedBy' = [c \in Calls |->
                            IF c \in matched /\ resolveCount[c] = 0
                            THEN m.messageId ELSE resolvedBy[c]]
        /\ laterSame' = [c \in Calls |->
                           laterSame[c] \/ (/\ callPc[c] = "resolved"
                                            /\ m.kind = "object"
                                            /\ m.messageId = messageId[c])]
  /\ UNCHANGED <<listener, messageId, toIframe, scriptLoaded, nStray>>
  /\ UNCHANGED <<regVars, convVars, obsVars, auxVars, authVars, rateVars, extVars>>

InitBus ==
  /\ val = FALSE
  /\ listener = NoCaller
  /\ callPc = [c \in Calls |-> "new"]
  /\ messageId = [c \in Calls |-> "unset"]
  /\ handlers = {}
  /\ toIframe = {}
  /\ toParent = <<>>
  /\ scriptLoaded = FALSE
  /\ resolveCount = [c \in Calls |-> 0]
  /\ resolvedBy = [c \in Calls |-> "unset"]
  /\ laterSame = [c \in Calls |-> FALSE]
  /\ nStray = 0

NextBus ==
  \/ \E c \in Calls : SendMessageToIframe(c)
  \/ \E c \in Calls : Resume(c)
  \/ SocketScriptRuns
  \/ EndpointReply
  \/ \E id \in MsgIds \cup {NoId} : StrayMessage(id)
  \/ WindowMessage

(* ==================== authentication handler =========================== *)

AuthCalls == 1..MaxAuthCalls
\* ids chrome.tabs.create gives to the tabs it opens
TabIds == 1..MaxAuthCalls
\* no tab was created for the call
NoTab == 0
\* authTokenCache.get('copilot') is undefined
NoEntry == [present |-> FALSE, timestamp |-> 0]
\* authTokenCache.set('copilot', {token, timestamp: Date.now()})
Entry(now) == [present |-> TRUE, timestamp |-> now]
\* the call found no cached entry, so it computed no age
NoAge == -1
\* milliseconds that pass between two events of the service worker
AuthClockSteps == {1, tokenTtl - 1}

\* age < 3600000 with the age in whole seconds: an entry is kept one hour
\* and 999 ms (a variant of IsFresh)
IsFreshWholeSeconds(age) == age \div 1000 <= tokenTtl \div 1000

\* if (age < 3600000)
IsFresh(age) == age < tokenTtl

\* some() over an empty callback result: never in progress (a variant of
\* IsAuthInProgress)
IsAuthInProgressNever(tabs) == FALSE

\* isAuthInProgress: chrome.tabs.get(id) returns a promise, which is truthy
\* for every id, so some() is true exactly when authTabs is not empty
IsAuthInProgress(tabs) == tabs # {}

\* handleAuth from the in-progress check to its next suspension
AfterCacheMiss(a) ==
  IF IsAuthInProgress(authTabs)
  THEN /\ answer' = [answer EXCEPT ![a] = "Authentication in progress"]
       /\ authPc' = [authPc EXCEPT ![a] = "done"]
  ELSE \* await refreshAuthToken()
       /\ authPc' = [authPc EXCEPT ![a] = "refresh"]
       /\ UNCHANGED answer

\* handleAuth(message, sender, sendResponse) up to its first suspension; the
\* calls are numbered in the order they are made
HandleAuth(a) ==
  /\ authPc[a] = "new"
  /\ \A b \in AuthCalls : b < a => authPc[b] # "new"
  /\ madeWithTab' = [madeWithTab EXCEPT ![a] = (authTabs \cap openTabs # {})]
  /\ IF authTokenCache.present
     THEN LET age == authClock - authTokenCache.timestamp IN
          /\ checkedAge' = [checkedAge EXCEPT ![a] = age]
          /\ IF IsFresh(age)
             THEN \* await chrome.cookies.getAll(...)
                  /\ authPc' = [authPc EXCEPT ![a] = "cookies"]
                  /\ UNCHANGED <<authTokenCache, answer>>
             ELSE /\ authTokenCache' = NoEntry
                  /\ AfterCacheMiss(a)
     ELSE /\ UNCHANGED <<authTokenCache, checkedAge>>
          /\ AfterCacheMiss(a)
  /\ UNCHANGED <<authTabs, authCookie, openTabs, createdTab, nTabs, authClock,
                 nAuthTicks>>
  /\ UNCHANGED <<regVars, convVars, obsVars, auxVars, busVars, rateVars, extVars>>

\* a check that would take the cookie to be there
HasAuthCookieAssumed(cookie) ==
  TRUE

\* cookies.find(c => c.name === '_C_Auth') on the answer of getAll
HasAuthCookie(cookie) ==
  cookie

\* chrome.cookies.getAll has answered the cache check
CookiesReturn(a) ==
  /\ authPc[a] = "cookies"
  /\ IF HasAuthCookie(authCookie)
     THEN /\ answer' = [answer EXCEPT ![a] = "cached token"]
          /\ authPc' = [authPc EXCEPT ![a] = "done"]
          /\ UNCHANGED authTokenCache
     ELSE /\ authTokenCache' = NoEntry
          /\ AfterCacheMiss(a)
  /\ UNCHANGED <<authTabs, authCookie, openTabs, createdTab, nTabs, authClock,
                 nAuthTicks, madeWithTab, checkedAge>>
  /\ UNCHANGED <<regVars, convVars, obsVars, auxVars, busVars, rateVars, extVars>>

\* refreshAuthToken() has returned data (ok) or null; without data the
\* handler goes on to chrome.tabs.create, which opens the tab
RefreshReturn(a, ok) ==
  /\ authPc[a] = "refresh"
  /\ IF ok
     THEN /\ authTokenCache' = Entry(authClock)
          /\ answer' = [answer EXCEPT ![a] = "token"]
          /\ authPc' = [authPc EXCEPT ![a] = "done"]
          /\ UNCHANGED <<openTabs, createdTab, nTabs>>
     ELSE /\ nTabs' = nTabs + 1
          /\ openTabs' = openTabs \cup {nTabs + 1}
          /\ createdTab' = [createdTab EXCEPT ![a] = nTabs + 1]
          /\ authPc' = [authPc EXCEPT ![a] = "create"]
          /\ UNCHANGED <<authTokenCache, answer>>
  /\ UNCHANGED <<authTabs, authCookie, authClock, nAuthTicks, madeWithTab,
                 checkedAge>>
  /\ UNCHANGED <<regVars, convVars, obsVars, auxVars, busVars, rateVars, extVars>>

\* chrome.tabs.create has answered: authTabs.add(tab.id)
TabCreated(a) ==
  /\ authPc[a] = "create"
  /\ authTabs' = authTabs \cup {createdTab[a]}
  /\ answer' = [answer EXCEPT ![a] = "Authentication required"]
  /\ authPc' = [authPc EXCEPT ![a] = "done"]
  /\ UNCHANGED <<authTokenCache, authCookie, openTabs, createdTab, nTabs,
                 authClock, nAuthTicks, madeWithTab, checkedAge>>
  /\ UNCHANGED <<regVars, convVars, obsVars, auxVars, busVars, rateVars, extVars>>

\* chrome.tabs.onRemoved: an authentication tab is gone, closed by the user
\* or by the chrome.tabs.remove of the onUpdated listener, whose
\* authTabs.delete follows it
TabRemoved(t) ==
  /\ t \in openTabs
  /\ openTabs' = openTabs \ {t}
  /\ authTabs' = authTabs \ {t}
  /\ UNCHANGED <<authTokenCache, authCookie, authPc, answer, createdTab, nTabs,
                 authClock, nAuthTicks, madeWithTab, checkedAge>>
  /\ UNCHANGED <<regVars, convVars, obsVars, auxVars, busVars, rateVars, extVars>>

\* chrome.tabs.onUpdated for a registered tab whose login succeeded:
\* refreshAuthToken() returns data and caches it; the listener then awaits
\* chrome.tabs.remove(tabId), and the tab stays registered until TabRemoved
TabUpdated(t) ==
  /\ t \in authTabs
  /\ t \in openTabs
  /\ authCookie' = TRUE
  /\ authTokenCache' = Entry(authClock)
  /\ UNCHANGED <<authTabs, openTabs, authPc, answer, createdTab, nTabs,
                 authClock, nAuthTicks, madeWithTab, checkedAge>>
  /\ UNCHANGED <<regVars, convVars, obsVars, auxVars, busVars, rateVars, extVars>>

\* Date.now() moves on while a token is cached
ClockAdvance(d) ==
  /\ authTokenCache.present
  /\ nAuthTicks < MaxAuthTicks
  /\ authClock' = authClock + d
  /\ nAuthTicks' = nAuthTicks + 1
  /\ UNCHANGED <<authTabs, authTokenCache, authCookie, authPc, answer,
                 openTabs, createdTab, nTabs, madeWithTab, checkedAge>>
  /\ UNCHANGED <<regVars, convVars, obsVars, auxVars, busVars, rateVars, extVars>>

\* the _C_Auth cookie expires or is deleted
CookieLost ==
  /\ authCookie
  /\ authCookie' = FALSE
  /\ UNCHANGED <<authTabs, authTokenCache, authPc, answer, openTabs,
                 createdTab, nTabs, authClock, nAuthTicks, madeWithTab,
                 checkedAge>>
  /\ UNCHANGED <<regVars, convVars, obsVars, auxVars, busVars, rateVars, extVars>>

InitAuthWith(cookie) ==
  /\ authTabs = {}
  /\ authTokenCache = NoEntry
  /\ authCookie = cookie
  /\ authPc = [a \in AuthCalls |-> "new"]
  /\ answer = [a \in AuthCalls |-> "none"]
  /\ openTabs = {}
  /\ createdTab = [a \in AuthCalls |-> NoTab]
  /\ nTabs = 0
  /\ authClock = 0
  /\ nAuthTicks = 0
  /\ madeWithTab = [a \in AuthCalls |-> FALSE]
  /\ checkedAge = [a \in AuthCalls |-> NoAge]

NextAuth ==
  \/ \E a \in AuthCalls : HandleAuth(a)
  \/ \E a \in AuthCalls : CookiesReturn(a)
  \/ \E a \in AuthCalls, ok \in BOOLEAN : RefreshReturn(a, ok)
  \/ \E a \in AuthCalls : TabCreated(a)
  \/ \E t \in TabIds : TabRemoved(t)
  \/ \E t \in TabIds : TabUpdated(t)
  \/ \E d \in AuthClockSteps : ClockAdvance(d)
  \/ CookieLost

(* ======================= admission control ============================= *)

\* how many checks a caller makes one millisecond apart in SteadyLoad
BurstSizes == {maxRequests - 2, maxRequests - 1}

\* the clean-up loop: entries with now - timestamp > windowMs are deleted
Purge(reqs, now) == {timestamp \in reqs : ~(now - timestamp > windowMs)}

\* if (rateLimits.requests.size >= rateLimits.maxRequests) return false
CheckRateLimit(reqs, now) == ~(Cardinality(Purge(reqs, now)) >= maxRequests)

\* the Map after the call: requests.set(now, true) adds the key now, once
RequestsAfter(reqs, now) ==
  IF CheckRateLimit(reqs, now)
  THEN Purge(reqs, now) \cup {now}
  ELSE Purge(reqs, now)

\* the checks that returned true, after one more call
AdmittedAfter(adm, reqs, now) ==
  IF CheckRateLimit(reqs, now) THEN Append(adm, now) ELSE adm

RECURSIVE Burst(_, _, _, _)
\* k calls of checkRateLimit, one every millisecond
Burst(reqs, adm, now, k) ==
  IF k = 0
  THEN [requests |-> reqs, admitted |-> adm, now |-> now]
  ELSE Burst(RequestsAfter(reqs, now), AdmittedAfter(adm, reqs, now),
             now + 1, k - 1)

\* one call of checkRateLimit()
CheckRateLimitCall ==
  /\ nChecks < MaxChecks
  /\ requests' = RequestsAfter(requests, rateNow)
  /\ admitted' = AdmittedAfter(admitted, requests, rateNow)
  /\ nChecks' = nChecks + 1
  /\ UNCHANGED <<rateNow, nRateTicks>>
  /\ UNCHANGED <<regVars, convVars, obsVars, auxVars, busVars, authVars,
                 extVars>>

\* the first k calls of a run arrive one millisecond apart
SteadyLoad(k) ==
  /\ requests = {}
  /\ admitted = <<>>
  /\ LET after == Burst(requests, admitted, rateNow, k) IN
       /\ requests' = after.requests
       /\ admitted' = after.admitted
       /\ rateNow' = after.now - 1
  /\ UNCHANGED <<nChecks, nRateTicks>>
  /\ UNCHANGED <<regVars, convVars, obsVars, auxVars, busVars, authVars,
                 extVars>>

\* Date.now() moves on between two calls
RateClockAdvance(d) ==
  /\ nRateTicks < MaxRateTicks
  /\ rateNow' = rateNow + d
  /\ nRateTicks' = nRateTicks + 1
  /\ UNCHANGED <<requests, admitted, nChecks>>
  /\ UNCHANGED <<regVars, convVars, obsVars, auxVars, busVars, authVars,
                 extVars>>

InitRate ==
  /\ rateNow = 0
  /\ requests = {}
  /\ admitted = <<>>
  /\ nChecks = 0
  /\ nRateTicks = 0

NextRate ==
  \/ CheckRateLimitCall
  \/ \E k \in BurstSizes : SteadyLoad(k)
  \/ \E d \in {1, windowMs, windowMs + 1} : RateClockAdvance(d)

(* ============================ Spec ===================================== *)

\* no snapshot is stored and the page clock stands at 0
InitSnap ==
  /\ snapshot = NoSnapshot
  /\ pageClock = 0
  /\ nRestores = 0
  /\ nPageTicks = 0

\* handleActionWebsocket(action) is entered with tryTimes = 3
InitOpen ==
  /\ openTries = tryTimes
  /\ openWaits = <<>>
  /\ openOut = "none"
  /\ constructions = 0
  /\ nRateWaits = 0

\* the iframe has been created and the iframe script injected
InitEndpoint ==
  /\ epScript = "none"
  /\ epEffects = <<>>
  /\ nEpMsgs = 0
  \* the iframe script has run once: lastResponseTime = Date.now() and
  \* 'iframe-script-ready' is posted
  /\ ifIdle = 0
  /\ ifLoads = 0
  /\ hostInbox = <<"iframe-script-ready">>
  /\ scriptsPosted = 0
  /\ readySeen = 0
  /\ epSockOpen = FALSE
  /\ epSockIdle = 0
  /\ epFrames = 0

InitOf(limit, cookie) ==
  /\ websockets = <<>>
  /\ readyState = [o \in Objs |-> NONE]
  /\ buffer = [o \in Objs |-> <<>>]
  /\ readPromise = [o \in Objs |-> FALSE]
  /\ pingInterval = [o \in Objs |-> FALSE]
  /\ connectionTimeout = [o \in Objs |-> FALSE]
  /\ idle = [o \in Objs |-> 0]
  /\ nMsgs = 0
  /\ session = NoSession
  /\ socketID = NoSocket
  /\ retryCount = 0
  /\ sendingAllowed = TRUE
  /\ pc = "idle"
  /\ ctx = "none"
  /\ resp = NoResp
  /\ lastError = "none"
  /\ emitted = <<>>
  /\ heldObj = NoObj
  /\ openedWith = [o \in Objs |-> "none"]
  /\ turnFrames = <<>>
  /\ reconnects = 0
  /\ lastSeq = [o \in Objs |-> 0]
  /\ prevSeq = [o \in Objs |-> 0]
  /\ turnState = "Idle"
  /\ nTurns = 0
  /\ nFails = 0
  /\ failLimit = limit
  /\ regDelays = <<>>
  /\ delay = 0
  /\ parseErrors = 0
  /\ nSignals = 0
  /\ InitBus
  /\ InitAuthWith(cookie)
  /\ InitRate
  /\ unanswered = [o \in Objs |-> 0]
  /\ errorEvent = [o \in Objs |-> FALSE]
  /\ InitSnap
  /\ InitOpen
  /\ InitEndpoint
  /\ InitGpt

\* the state after the constructor, in a run where at most MaxFails socket
\* constructions fail
\* the user is not signed in when the run starts
InitAuth == InitAuthWith(FALSE)
InitWith(limit) == InitOf(limit, FALSE)

Init == InitWith(MaxFails)

\* the user is signed in when the page is loaded
InitRestore == InitOf(MaxFails, TRUE)

\* the same state, in a run where up to MaxCreateFails constructions fail
InitBackoff == InitWith(MaxCreateFails)

Next ==
  \/ SetupAndSend
  \/ \E outcome \in Tokens \cup {"authRequired", "sessionError"} :
       AuthResponse(outcome)
  \/ CreateReturn
  \/ BackoffDone
  \/ SendReturn
  \/ RecvReturn
  \/ RemoveConversation
  \/ RemoveReturn
  \/ \E o \in Objs : o = LatestObj /\ OnOpen(o)
  \/ \E o \in Objs, pkt \in Packets :
       /\ o = LatestObj
       /\ o <= MaxTalking
       /\ nMsgs < MaxMsgs
       /\ OnMessage(o, pkt)
  \/ \E o \in Objs : o = LatestObj /\ KeepaliveTick(o)
  \/ \E o \in Objs : o = LatestObj /\ OnConnectionTimeout(o)
  \/ \E o \in Objs : OnClose(o)

Spec == Init /\ [][Next]_vars

\* One turn against a server that answers with the DisconnectPackets and
\* never closes a connection itself; the closing handshakes the registry
\* starts are still under way when the run ends
NextDisconnects ==
  \/ SetupAndSend
  \/ \E outcome \in Tokens : AuthResponse(outcome)
  \/ CreateReturn
  \/ BackoffDone
  \/ SendReturn
  \/ RecvReturn
  \/ \E o \in Objs : o = LatestObj /\ OnOpen(o)
  \/ \E o \in Objs, pkt \in DisconnectPackets :
       /\ o = LatestObj
       /\ nMsgs < MaxDisconnects
       /\ OnMessage(o, pkt)

SpecDisconnects == Init /\ [][NextDisconnects]_vars

\* One turn over a network on which socket constructions keep failing
NextBackoff ==
  \/ SetupAndSend
  \/ \E outcome \in Tokens : AuthResponse(outcome)
  \/ CreateReturn
  \/ BackoffDone
  \/ SendReturn
  \/ RecvReturn
  \/ \E o \in Objs : o = LatestObj /\ OnOpen(o)
  \/ \E o \in Objs, pkt \in {<<"done">>, <<"a", "disconnect">>} :
       /\ o = LatestObj
       /\ nMsgs < MaxMsgs
       /\ OnMessage(o, pkt)

SpecBackoff == InitBackoff /\ [][NextBackoff]_vars

\* One turn against a server whose packets are the FramingPackets
NextFraming ==
  \/ SetupAndSend
  \/ \E outcome \in Tokens : AuthResponse(outcome)
  \/ CreateReturn
  \/ BackoffDone
  \/ SendReturn
  \/ RecvReturn
  \/ \E o \in Objs : o = LatestObj /\ OnOpen(o)
  \/ \E o \in Objs, pkt \in FramingPackets :
       /\ o = LatestObj
       /\ nMsgs < MaxMsgs
       /\ OnMessage(o, pkt)

SpecFraming == Init /\ [][NextFraming]_vars

\* Turns of a conversation that receives auth-complete messages
NextParked ==
  \/ SetupAndSend
  \/ \E outcome \in Tokens \cup {"authRequired", "sessionError"} :
       AuthResponse(outcome)
  \/ \E token \in Tokens : AuthComplete(token)
  \/ CreateReturn
  \/ BackoffDone
  \/ SendReturn
  \/ RecvReturn
  \/ \E o \in Objs : o = LatestObj /\ OnOpen(o)
  \/ \E o \in Objs, pkt \in {<<"a">>, <<"done">>, <<"a", "errTok">>} :
       /\ o = LatestObj
       /\ nMsgs < MaxMsgs
       /\ OnMessage(o, pkt)

SpecParked == Init /\ [][NextParked]_vars

\* removeConversation after a turn; the browser completes a closing
\* handshake when the peer answers it, which nothing obliges the peer to
\* do, so OnClose carries no fairness.  The registry's 50 ms timer keeps
\* firing, so the close call returns once the socket is seen CLOSED.
NextClose ==
  \/ SetupAndSend
  \/ \E outcome \in Tokens : AuthResponse(outcome)
  \/ CreateReturn
  \/ BackoffDone
  \/ SendReturn
  \/ RecvReturn
  \/ RemoveConversation
  \/ RemoveReturn
  \/ \E o \in Objs : o = LatestObj /\ OnOpen(o)
  \/ \E o \in Objs, pkt \in {<<"a">>, <<"done">>} :
       /\ o = LatestObj
       /\ nMsgs < MaxMsgs
       /\ OnMessage(o, pkt)
  \/ \E o \in Objs : OnClose(o)

SpecClose == Init /\ [][NextClose]_vars /\ WF_vars(RemoveReturn)

\* One turn against a server whose packets are the ErrorPackets
NextErrors ==
  \/ SetupAndSend
  \/ \E outcome \in Tokens : AuthResponse(outcome)
  \/ CreateReturn
  \/ BackoffDone
  \/ SendReturn
  \/ RecvReturn
  \/ \E o \in Objs : o = LatestObj /\ OnOpen(o)
  \/ \E o \in Objs, pkt \in ErrorPackets :
       /\ o = LatestObj
       /\ nMsgs < MaxMsgs
       /\ OnMessage(o, pkt)

SpecErrors == Init /\ [][NextErrors]_vars

\* One turn against a server whose packets are the TokenErrorPackets
NextTokenError ==
  \/ SetupAndSend
  \/ \E outcome \in Tokens : AuthResponse(outcome)
  \/ CreateReturn
  \/ BackoffDone
  \/ SendReturn
  \/ RecvReturn
  \/ \E o \in Objs : o = LatestObj /\ OnOpen(o)
  \/ \E o \in Objs, pkt \in TokenErrorPackets :
       /\ o = LatestObj
       /\ nMsgs < MaxMsgs
       /\ OnMessage(o, pkt)

SpecTokenError == Init /\ [][NextTokenError]_vars

\* one open call on a network where constructions may throw and the rate
\* limit may be exceeded
SpecOpen == Init /\ [][NextOpen]_vars

\* messages of any origin delivered to the iframe
SpecEndpoint == Init /\ [][NextEndpoint]_vars

\* the iframe with its reload timer, the offscreen window's listener and a
\* socket inside the iframe
SpecReload == Init /\ [][NextReload]_vars

\* the turns of a ChatGPT conversation
SpecGpt == Init /\ [][NextGpt]_vars

\* Turns of a conversation whose page restores the persisted session, while
\* time passes and the _C_Auth cookie may be lost
NextRestore ==
  \/ SetupAndSend
  \/ \E outcome \in Tokens \cup {"authRequired"} : AuthResponse(outcome)
  \/ CreateReturn
  \/ BackoffDone
  \/ SendReturn
  \/ RecvReturn
  \/ RemoveConversation
  \/ RemoveReturn
  \/ RestoreSession
  \/ \E d \in PageClockSteps : PageClockAdvance(d)
  \/ CookieLost
  \/ \E o \in Objs : o = LatestObj /\ OnOpen(o)
  \/ \E o \in Objs :
       /\ o = LatestObj
       /\ nMsgs < MaxMsgs
       /\ OnMessage(o, <<"done">>)
  \/ \E o \in Objs : OnClose(o)

SpecRestore == InitRestore /\ [][NextRestore]_vars

\* sendMessageToIframe calls over the offscreen message bus
SpecBus == Init /\ [][NextBus]_vars

\* concurrent copilot-auth requests in the background service worker
SpecAuth == Init /\ [][NextAuth]_vars

\* admission checks of the Transport Registry against the clock
SpecRate == Init /\ [][NextRate]_vars

(* ========================== properties ================================= *)

\* sockets registered in the Transport Registry that are connecting or open
LiveSockets ==
  {o \in Objs : IndexOf(o) > -1 /\ readyState[o] \in {CONNECTING, OPEN}}

\* C1: at every point at most one socket opened for the conversation is live
\* (connecting or open) in the Transport Registry.
C1_AtMostOneLiveSocket == Cardinality(LiveSockets) <= 1

\* C2: while the socket an id was returned for is live, that id designates it:
\* the lookup finds this socket, never another one and never none.
C2_IdDesignatesSameSocket ==
  (socketID # NoSocket /\ heldObj # NoObj /\
   readyState[heldObj] \in {CONNECTING, OPEN})
    => Lookup(socketID) = heldObj

\* C3: a socket's Stream hands its packets out in arrival order: the packet
\* handed out last did not arrive before the one handed out before it.
C3_ReceiveInArrivalOrder == \A o \in Objs : prevSeq[o] <= lastSeq[o]

\* two packets that arrived one after the other were handed out
C3_Witness == \E o \in Objs : prevSeq[o] >= 1 /\ lastSeq[o] > prevSeq[o]

\* the frames are appendText frames followed by one done frame
TextsThenDone(fs) ==
  fs # <<>> /\ fs # Other /\ TurnPrefix(fs) /\ fs[Len(fs)] = "done"

\* C4: when the frames of a turn are appendText frames followed by done, the
\* turn ends Done with exactly one emission per appendText frame, in order,
\* and sending is allowed again.
C4_OneEmissionPerFrame ==
  (turnState = "Done" /\ TextsThenDone(turnFrames))
    => /\ emitted = SubSeq(turnFrames, 1, Len(turnFrames) - 1)
       /\ sendingAllowed

C6_ReconnectsBounded == reconnects <= maxRetries

\* C7: when the close of a stalled socket that the keepalive has force-closed
\* completes, no receive is left pending on it: the pending receive has
\* returned to the caller.
C7_NoReceiveOnClosedSocket ==
  [][ \A o \in Objs :
        (readyState[o] = CLOSING /\ idle[o] >= 2 /\ readyState'[o] = CLOSED)
          => ~readPromise'[o] ]_vars

\* C8: once readiness has been observed, no call is left waiting for it:
\* every call that waited has been released to forward its message.
C8_AllWaitersReleased ==
  val => \A c \in Calls : callPc[c] # "waitReady"

\* C9: the messageHandler of a call resolves it at most once, with a message
\* that carries the call's own messageId, and is removed when it has resolved.
C9_ResolvesOnceWithOwnId ==
  \A c \in Calls :
    /\ resolveCount[c] <= 1
    /\ resolveCount[c] >= 1 => (resolvedBy[c] = messageId[c] /\ c \notin handlers)

\* a call has resolved and a later message with the same id was delivered
C9_Witness ==
  \E c \in Calls : resolveCount[c] = 1 /\ laterSame[c]

\* C10: at most one authentication tab is open and registered at any time.
C10_AtMostOneAuthTab == Cardinality(authTabs \cap openTabs) <= 1

AdmittedInWindow(i) ==
  Cardinality({j \in 1..Len(admitted) :
                 /\ admitted[j] >= admitted[i]
                 /\ admitted[j] < admitted[i] + windowMs})

\* C12: in every rolling window of windowMs milliseconds at most maxRequests
\* admission checks return true
C12_AtMostMaxRequestsPerWindow ==
  \A i \in 1..Len(admitted) : AdmittedInWindow(i) <= maxRequests

FirstEnding(fs) ==
  LET ends == {k \in 1..Len(fs) :
                 fs[k] \in {"errTok", "errOther", "disconnect", "done"}}
  IN IF ends = {} THEN 0 ELSE CHOOSE k \in ends : \A j \in ends : k <= j

\* the texts of the appendText frames among the first n frames of fs
TextsAmong(fs, n) ==
  SelectSeq(SubSeq(fs, 1, n), LAMBDA f : f \in TextFrames)

\* C21: when next() reaches an error frame that names no token, the turn
\* ends as Fatal with that frame as the error handed to the error handler,
\* no socket is created and no reconnection is counted, and nothing of the
\* packet after the error frame is emitted
C21_OtherErrorIsFatal ==
  [][(/\ pc = "recv"
      /\ resp.kind = "packet"
      /\ resp.readyState = OPEN
      /\ FirstEnding(resp.packet.frames) > 0
      /\ resp.packet.frames[FirstEnding(resp.packet.frames)] = "errOther"
      /\ <<pc, resp>>' # <<pc, resp>>)
     => LET fs == resp.packet.frames IN
        /\ turnState' = "Fatal"
        /\ lastError' = fs[FirstEnding(fs)]
        /\ pc' = "idle"
        /\ websockets' = websockets
        /\ reconnects' = reconnects
        /\ retryCount' = retryCount
        /\ session' = session
        /\ emitted' = emitted \o TextsAmong(fs, FirstEnding(fs) - 1)]_vars

\* a turn ended as Fatal on an error frame that was followed by a text
\* frame, after the text before it was emitted
C21_Witness ==
  /\ turnState = "Fatal"
  /\ lastError = "errOther"
  /\ emitted = <<"a">>
  /\ turnFrames = Other
  /\ \E o \in Objs : \E i \in 1..Len(buffer[o]) :
       buffer[o][i].frames = <<"a", "errOther", "b">>


\* the frames of the packet data
HasPong(data) == \E k \in 1..Len(data.frames) : data.frames[k] = "pong"

\* C28: no packet in a receive buffer and no packet answered to a receive
\* holds a pong frame
C28_PongNeverDelivered ==
  /\ \A o \in Objs : \A i \in 1..Len(buffer[o]) : ~HasPong(buffer[o][i])
  /\ resp.kind = "packet" => ~HasPong(resp.packet)


\* C25: the turn goes from sending its content frame to receiving only if
\* the registry accepted the content frame; a send that was refused is not
\* followed by a receive
C25_ReceiveOnlyAfterAcceptedSend ==
  [][(pc = "sendPrompt" /\ pc' = "recv")
       => (resp.kind = "status" /\ resp.status = "Success")]_vars

\* C26: when the close of a socket that the registry itself has started to
\* close completes, no receive of the conversation is left pending on it:
\* the receive has returned
C26_ReceiveReturnsOnRegistryClose ==
  [][\A o \in Objs :
       (/\ readyState[o] = CLOSING
        /\ readyState'[o] = CLOSED
        /\ pc = "recv"
        /\ heldObj = o)
         => (resp'.kind # "none" /\ ~readPromise'[o])]_vars

\* C29: a ping is sent only by a tick of an open socket whose keepalive has
\* not been stopped by a close or error event and that received its last
\* frame at most 30 s (two periods) ago, and then exactly one ping is sent
\* and the socket stays open; the keepalive closes a socket only when more
\* than 30 s have passed, and then sends no ping
C29_TickPingsOrCloses ==
  [][\A o \in Objs :
       /\ unanswered'[o] > unanswered[o]
            => (/\ unanswered'[o] = unanswered[o] + 1
                /\ readyState[o] = OPEN
                /\ readyState'[o] = OPEN
                /\ idle[o] <= 1
                /\ pingInterval[o]
                /\ ~errorEvent[o])
       /\ (/\ readyState[o] = OPEN
           /\ readyState'[o] = CLOSING
           /\ nMsgs' = nMsgs
           /\ pc' = pc)
            => (/\ idle[o] >= 2
                /\ unanswered'[o] = unanswered[o]
                /\ pingInterval[o]
                /\ ~errorEvent[o])]_vars

\* the keepalive has pinged twice after a message and then closed the
\* socket, and another socket had its keepalive stopped by an error event
\* after a ping
C29_Witness ==
  /\ \E o \in Objs :
       /\ pc = "recv"
       /\ heldObj = o
       /\ readyState[o] = CLOSING
       /\ idle[o] >= 2
       /\ unanswered[o] = 2
  /\ \E o \in Objs : errorEvent[o] /\ readyState[o] = OPEN


\* C27: a token error that has arrived on the socket of the conversation
\* does not leave the receive of the conversation pending: the receive that
\* was pending when it arrived has reported it
C27_TokenErrorReported ==
  \A o \in Objs :
    ~(/\ errorEvent[o]
      /\ heldObj = o
      /\ pc = "recv"
      /\ resp.kind = "none"
      /\ readPromise[o])


\* C30: every step of an open call leaves the attempt budget as it is or
\* lowers it by one: a retry after a failed construction lowers it, a
\* rate-limit wait leaves it; at most 4 constructions are attempted, and the
\* call answers with the creation error exactly when the fourth has failed
C30_OpenAttemptsBounded ==
  [][/\ openTries' \in {openTries, openTries - 1}
     /\ (constructions' > constructions /\ openOut' = "none")
          => openTries' = openTries - 1
     /\ constructions' = constructions => openTries' = openTries
     /\ constructions' <= 4
     /\ openOut' = "error" => (constructions' = 4 /\ openTries' = 0)
     /\ constructions' = 4 => openOut' # "none"]_vars

\* the call has answered with the creation error after four constructions
\* and rate-limit waits in between
C30_Witness ==
  /\ openOut = "error"
  /\ constructions = 4
  /\ \E i \in 2..Len(openWaits) :
       openWaits[i] = rateLimitWait /\ openWaits[i - 1] # rateLimitWait


\* C22: nothing the iframe does, neither a script insertion, an
\* acknowledgement, a registry call nor a reply, is caused by a message of
\* another origin than the extension's
C22_ForeignMessagesDropped ==
  \A i \in 1..Len(epEffects) : epEffects[i].origin = "extension"


\* C24: restoreSession installs the Session from the stored snapshot only
\* while the companion credential, the _C_Auth cookie, is present
C24_RestoreNeedsCredential ==
  [][(nRestores' = nRestores + 1 /\ session' # session) => authCookie]_vars


\* C38: every socket that is OPEN has its keepalive timer running, also
\* after an error frame that mentions the token has been handled on it
C38_OpenSocketHasKeepalive ==
  \A o \in Objs : readyState[o] = OPEN => pingInterval[o]


\* C35: a message received on a socket is handed to the conversation once,
\* however many frames it holds: the receive buffer of the socket never
\* holds the same message twice, nor a message that a receive has already
\* been answered with, so that each of its frames is dispatched once
C35_PacketQueuedOnce ==
  \A o \in Objs :
    /\ \A i \in 1..Len(buffer[o]) : buffer[o][i].seq > lastSeq[o]
    /\ \A i, j \in 1..Len(buffer[o]) :
         i # j => buffer[o][i].seq # buffer[o][j].seq


C36_ConversationIdKeptDuringTurn ==
  [][(/\ pc \notin {"idle", "removing"}
      /\ session # NoSession
      /\ session' # NoSession)
       => session'.conversationId = session.conversationId]_vars


\* C37: an auth-complete message that reaches a conversation which is not
\* parked starts no turn: the conversation stays where it is and no socket
\* is requested for it
C37_AuthCompleteStartsTurnOnlyWhenParked ==
  [][(nSignals' # nSignals /\ turnState # "Parked")
       => (/\ pc' = pc
           /\ turnState' = turnState
           /\ websockets' = websockets)]_vars


\* C32: the offscreen window handles the readiness announcement of the
\* socket script, 'socket-script-ready', at most once, whatever loads,
\* reloads and script injections happen
C32_ReadyAnnouncedOnce == readySeen <= 1


\* C39: the iframe does not reload while a socket inside it is open and a
\* frame was sent or received on it during the last 30 s (two timer periods)
C39_NoReloadWhileSocketActive ==
  [][ifLoads' = ifLoads + 1 => ~(epSockOpen /\ epSockIdle <= 1)]_vars


\* C33: a packet after which the buffer cannot be parsed is appended to the
\* buffer and changes nothing else: the continuation identifiers stay, the
\* sending flag stays as it is, no error ends the turn and next() goes on
\* receiving
C33_UnparsableChunkOnlyAppended ==
  [][(nGptChunks' = nGptChunks + 1 /\ gOutcome' = "failed")
       => (/\ gBuffer' = gBuffer \o gChunk'
           /\ gSession' = gSession
           /\ gSending' = gSending
           /\ gPc' = "recv")]_vars

\* two packets in a row have been appended to the buffer after a record
\* was parsed; sending is disabled and next() is receiving
C33_Witness ==
  /\ gOutcome = "failed"
  /\ ~gSending
  /\ gLastParsed # 0
  /\ Len(gBuffer) >= 2
  /\ nGptChunks = 3
  /\ gPc = "recv"


\* C34: a packet that completes a record leaves the buffer empty and the
\* session with the conversation id and the message id of that record, the
\* last in the text received; the request of the next prompt carries the
\* conversation id and, as parent message id, the message id of the record
\* parsed last
C34_ParsedRecordSetsContinuation ==
  [][/\ (nGptChunks' = nGptChunks + 1 /\ gOutcome' = "parsed")
         => LET all == gBuffer \o gChunk' IN
            /\ gBuffer' = <<>>
            /\ gSession'.conversation_id = ConversationIdOf(all[Len(all)].rec)
            /\ gSession'.parent_message_id = MessageIdOf(all[Len(all)].rec)
     /\ (nGptTurns' = nGptTurns + 1 /\ gLastParsed # 0)
         => /\ gConfig'.conversation_id = ConversationIdOf(gLastParsed)
            /\ gConfig'.parent_message_id = MessageIdOf(gLastParsed)]_vars

\* the second prompt has been sent with the identifiers of the record the
\* first turn parsed last, which arrived in two packets
C34_Witness ==
  /\ nGptTurns = 2
  /\ nGptChunks >= 2
  /\ gLastParsed = 2
  /\ gConfig = [parent_message_id |-> "m2", conversation_id |-> "c2"]
  /\ gBuffer = <<>>



\* min(1000 * 2^attempt, 5000), in ms
ExpectedDelay(attempt) ==
  IF 1000 * 2^attempt <= 5000 THEN 1000 * 2^attempt ELSE 5000

\* C14: the i-th delay of a create call in the registry (attempt i - 1, which
\* is 3 - tryTimes) and the delay createSocket waits (attempt retryCount) are
\* min(1000 * 2^attempt, 5000), and retryCount is 0 once a socket creation
\* has succeeded
C14_BackoffDelays ==
  /\ \A i \in 1..Len(regDelays) : regDelays[i] = ExpectedDelay(i - 1)
  /\ pc = "backoff" => delay = ExpectedDelay(retryCount)
  /\ pc \in {"sendPrompt", "recv"} => retryCount = 0

\* the third creation in a row fails in the registry after its three delays,
\* createSocket having waited twice already
C14_Witness ==
  /\ pc = "create"
  /\ resp.kind = "error"
  /\ regDelays = <<1000, 2000, 4000>>
  /\ retryCount = 2

\* the fragments of a packet that are frames, in order
WellFormed(pkt) == SelectSeq(pkt, LAMBDA f : f \in Frames)

\* the fragments of a packet that are neither blank nor frames
Malformed(pkt) == SelectSeq(pkt, LAMBDA f : f \notin Frames \cup {"", " "})

\* the texts of the appendText frames that come before the first done frame
RECURSIVE TextsUntilDone(_)
TextsUntilDone(fs) ==
  IF fs = <<>> \/ Head(fs) = "done" THEN <<>>
  ELSE (IF Head(fs) \in TextFrames THEN <<Head(fs)>> ELSE <<>>)
       \o TextsUntilDone(Tail(fs))

\* C15: when next() handles a packet, the caller receives exactly the texts
\* of its well-formed frames, in order; only malformed fragments are logged
\* as parse errors, blank ones are not; and unless a done frame ends it the
\* turn goes on without an error
C15_SplitYieldsParsedFrames ==
  [][(/\ pc = "recv"
      /\ resp.kind = "packet"
      /\ resp.readyState = OPEN
      /\ <<pc, resp, emitted, parseErrors>>' # <<pc, resp, emitted, parseErrors>>)
     => LET fs == WellFormed(resp.packet.frames) IN
        /\ emitted' = emitted \o TextsUntilDone(fs)
        /\ parseErrors' = parseErrors + Len(Malformed(resp.packet.frames))
        /\ IF \E k \in 1..Len(fs) : fs[k] = "done"
           THEN turnState' = "Done"
           ELSE /\ turnState' = "Running"
                /\ pc' = "recv"
                /\ lastError' = lastError]_vars

\* a packet with a malformed fragment between two texts was handled
C15_Witness ==
  /\ parseErrors = 1
  /\ emitted = <<"a", "b">>
  /\ turnState = "Running"

\* C16: a create call is made, and a socket constructed, only with a Session
\* that holds an access token, the one the socket is opened with; a send
\* without a Session goes to the authentication first; while the
\* conversation is parked without a token no socket is constructed
C16_SocketOnlyWithToken ==
  [][/\ (pc' = "create" /\ pc # "create") => session'.accessToken \in Tokens
     /\ \A o \in Objs :
          (readyState[o] = NONE /\ readyState'[o] # NONE)
            => (/\ session'.accessToken \in Tokens
                /\ openedWith'[o] = session'.accessToken)
     /\ (nTurns' # nTurns /\ session = NoSession)
          => (pc' = "init" /\ \A o \in Objs : readyState'[o] = readyState[o])
     /\ (turnState = "Parked" /\ session'.accessToken \notin Tokens)
          => \A o \in Objs : readyState[o] = NONE => readyState'[o] = NONE]_vars

\* the conversation is parked without a Session and no socket was constructed
C16_Witness ==
  /\ turnState = "Parked"
  /\ session = NoSession
  /\ \A o \in Objs : readyState[o] = NONE

C19_CloseReturns == (pc = "removing") ~> (pc = "idle")

\* C20: while the conversation re-authenticates after a token error, and
\* after that re-authentication has failed, the Session is absent and no
\* socket id is held
C20_TokenErrorClearsSocket ==
  /\ (pc = "init" /\ ctx = "tokenErr")
       => (session = NoSession /\ socketID = NoSocket)
  /\ (turnState = "Parked" /\ session = NoSession) => socketID = NoSocket

====
